---- MODULE Spec2Model ----
(***************************************************************************)
(* A model of the book catalog of alili1/myBookApp: the Book and QRCode    *)
(* tables (books/models.py), the file storage behind QRCode.qr_code, the   *)
(* QR rendering helpers (books/qr_code_utils.py) and the request handlers  *)
(* of BookViewSet (books/views.py).                                        *)
(*                                                                         *)
(* Strings the code parses or formats (QR payloads, ids) are sequences of  *)
(* one-character strings, so that formatting and parsing are computed.     *)
(***************************************************************************)
EXTENDS Integers, Sequences, FiniteSets, TLC

VARIABLES
    books,      \* Book table: id -> row
    nextId,     \* next value of Book.id (BigAutoField, never reused)
    qrcodes,    \* QRCode table: id -> row [book, qr_code]
    qrNext,     \* next value of QRCode.id
    files,      \* file storage: name -> stored image file
    pyzbar,     \* whether "from pyzbar import pyzbar" and numpy import succeed
    resp,       \* the response of the most recent request
    pc,         \* SpecRegen: position of each concurrent regenerate request
    req,        \* SpecRegen: locals of each concurrent regenerate request
    call        \* SpecRender: the last call of a rendering function

vars == <<books, nextId, qrcodes, qrNext, files, pyzbar, resp, pc, req, call>>

(***************************************************************************)
(* Bounds of the model.                                                    *)
(***************************************************************************)
MaxId == 2          \* Book ids ever assigned
MaxQr == 3          \* QRCode ids ever assigned
MaxFiles == 4       \* files ever written to the storage

(***************************************************************************)
(* Values.                                                                 *)
(***************************************************************************)
NULL == "NULL"      \* Python None / SQL NULL
NoFile == <<>>      \* an empty ImageField (falsy FieldFile)
NoDate == <<>>      \* publication_date = None

Truthy(s) == s \notin {NULL, ""}

\* The element of a one-element set.  The(LET-like) bindings below are
\* written { e(x) : x \in {v} } so that v is computed once.
The(S) == CHOOSE x \in S : TRUE

Max(S) == CHOOSE x \in S : \A y \in S : y <= x
Min(S) == CHOOSE x \in S : \A y \in S : x <= y

(***************************************************************************)
(* str(int) and int(str) of Python, on sequences of characters.            *)
(***************************************************************************)
Digits == <<"0", "1", "2", "3", "4", "5", "6", "7", "8", "9">>

DigitChars == {Digits[i] : i \in 1..10}

DigitVal(c) == (CHOOSE i \in 1..10 : Digits[i] = c) - 1

RECURSIVE Str(_)
Str(n) == IF n < 10 THEN <<Digits[n + 1]>>
          ELSE Str(n \div 10) \o <<Digits[(n % 10) + 1]>>

RECURSIVE DigitsVal(_)
DigitsVal(s) == IF s = <<>> THEN 0
                ELSE 10 * DigitsVal(SubSeq(s, 1, Len(s) - 1)) + DigitVal(s[Len(s)])

RECURSIVE Strip(_)
Strip(s) == IF s # <<>> /\ Head(s) = " " THEN Strip(Tail(s))
            ELSE IF s # <<>> /\ s[Len(s)] = " " THEN Strip(SubSeq(s, 1, Len(s) - 1))
            ELSE s

\* int(s): surrounding blanks and one sign are accepted, then digits only.
\* The result is [ok, val]; ok = FALSE stands for ValueError.
IntParse(s) ==
    LET t == Strip(s)
        signed == t # <<>> /\ Head(t) \in {"+", "-"}
        d == IF signed THEN Tail(t) ELSE t
    IN  IF d # <<>> /\ \A i \in 1..Len(d) : d[i] \in DigitChars
        THEN [ok |-> TRUE,
              val |-> IF signed /\ Head(t) = "-" THEN 0 - DigitsVal(d) ELSE DigitsVal(d)]
        ELSE [ok |-> FALSE, val |-> 0]

StartsWith(s, p) == Len(s) >= Len(p) /\ SubSeq(s, 1, Len(p)) = p

BookPrefix == <<"b", "o", "o", "k", ":">>

\* f"book:{book.id}"
QrData(id) == BookPrefix \o Str(id)

(***************************************************************************)
(* Rendering (qrcode + Pillow).  An image is a record: the payload its     *)
(* modules encode, the error-correction level, its pixel size, whether a   *)
(* logo was pasted on it, and the Pillow operations that produced it.      *)
(***************************************************************************)
BOX_SIZE == 10
QR_BORDER == 4
DEFAULT_SIDE == 500
DEFAULT_BORDER_SIZE == 20

\* A default size too small for the symbol it has to carry.
TinySize == <<2 * BOX_SIZE, 2 * BOX_SIZE>>

DefaultSize == <<DEFAULT_SIDE, DEFAULT_SIDE>>

\* str.upper() on the one-letter level names a request may carry
Upper(c) == CASE c = "l" -> "L" [] c = "m" -> "M" [] c = "q" -> "Q"
              [] c = "h" -> "H" [] OTHER -> c

\* error_map.get(error_correction.upper(), ERROR_CORRECT_H)
ErrorLevel(error_correction) ==
    IF Upper(error_correction) \in {"L", "M", "Q", "H"}
    THEN Upper(error_correction) ELSE "H"

\* Byte-mode capacity of QR versions 1..3 at each level (qr.make(fit=True)
\* starts from version=1 and takes the smallest version that holds the data).
ByteCapacity(level) ==
    CASE level = "L" -> <<17, 32, 53>>
      [] level = "M" -> <<14, 26, 42>>
      [] level = "Q" -> <<11, 20, 32>>
      [] OTHER       -> <<7, 14, 24>>

BestFit(data, level) ==
    Min({v \in 1..3 : Len(data) <= ByteCapacity(level)[v]})

\* qr.make_image(...): (modules + 2 * border) * box_size pixels a side
MakeImage(data, level) ==
    LET side == ((17 + 4 * BestFit(data, level)) + 2 * QR_BORDER) * BOX_SIZE
    IN  [payload |-> data, level |-> level, w |-> side, h |-> side,
         logo |-> FALSE, ops |-> <<"make_image">>]

\* Image.resize(size, LANCZOS)
Resize(img, size) ==
    [img EXCEPT !.w = size[1], !.h = size[2], !.ops = Append(@, "resize")]

\* Image.new('RGB', (w + 2b, h + 2b), border_color); paste(qr_img, (b, b))
AddBorder(img, border_size) ==
    [img EXCEPT !.w = @ + 2 * border_size, !.h = @ + 2 * border_size,
                !.ops = Append(@, "border")]

FitToSize(img, size) ==
    IF <<img.w, img.h>> # size THEN Resize(img, size) ELSE img

\* A plausible slip: the frame is pasted around the already resized image.
CreateEnhancedBorderLast(data, size, error_correction, add_border, border_size) ==
    LET qr_img == FitToSize(MakeImage(data, ErrorLevel(error_correction)), size)
    IN  IF add_border THEN AddBorder(qr_img, border_size) ELSE qr_img

create_enhanced_qr_code(data, size, error_correction, add_border, border_size) ==
    LET qr_img == MakeImage(data, ErrorLevel(error_correction))
        bordered == IF add_border THEN AddBorder(qr_img, border_size) ELSE qr_img
    IN  FitToSize(bordered, size)

\* The logo file named by logo_path: absent; "corrupt", not an image
\* (Image.open raises); "truncated", a good header with damaged data
\* (logo.resize raises); "badmode", an image of a mode that cannot be pasted
\* on an RGB canvas (paste raises); or good.
LogoFiles == {"absent", "corrupt", "truncated", "badmode", "good"}

\* Image.paste(logo_bg, logo_pos): the canvas keeps its size
PasteLogo(img) == [img EXCEPT !.logo = TRUE, !.ops = Append(@, "logo")]

\* What a statement that raises leaves in place of an image
Raised == [payload |-> <<>>, level |-> "", w |-> 0, h |-> 0, logo |-> FALSE,
           ops |-> <<"raised">>]

\* The body of the try block of the logo overlay: open the logo, resize it
\* to logo_size, paste it on a white background and that on the QR image.
\* The QR image is touched by the last statement only.
LogoBody(qr_image, logo_path, logo_size) ==
    IF logo_path = "corrupt" THEN Raised
    ELSE IF logo_path = "truncated" \/ logo_size[1] <= 0 \/ logo_size[2] <= 0 THEN Raised
    ELSE IF logo_path = "badmode" THEN Raised
    ELSE PasteLogo(qr_image)

\* A logo overlay without the except clause.
LogoBodyUncaught(qr_image, logo_path, logo_size) ==
    LogoBody(qr_image, logo_path, logo_size)

\* try: <body> except Exception: keep the QR image as it is
TryLogo(qr_image, logo_path, logo_size) ==
    The({ IF r = Raised THEN qr_image ELSE r :
          r \in {LogoBody(qr_image, logo_path, logo_size)} })

\* add_logo_to_qr_code(qr_image, logo_path, logo_size_ratio), the ratio in
\* hundredths; int() truncates the product
add_logo_to_qr_code(qr_image, logo_path, ratio) ==
    IF logo_path = "absent" THEN qr_image
    ELSE TryLogo(qr_image, logo_path,
                 <<(qr_image.w * ratio) \div 100, (qr_image.h * ratio) \div 100>>)

\* QRCode.generate_qr_code up to the resize: the rendered image.
\* logo_path is NULL or one of LogoFiles.
GenerateImage(id, size, add_logo, logo_path) ==
    LET qr_img == MakeImage(QrData(id), "H")
        withLogo == IF add_logo /\ logo_path # NULL /\ logo_path # "absent"
                    THEN TryLogo(qr_img, logo_path, <<qr_img.w \div 5, qr_img.h \div 5>>)
                    ELSE qr_img
    IN  FitToSize(withLogo, size)

\* Image.save(buffer, format=...) : the bytes of a stored or served file
Encode(img, format) ==
    [format |-> format, payload |-> img.payload, level |-> img.level,
     w |-> img.w, h |-> img.h, logo |-> img.logo, state |-> "ok"]

\* str.upper() on the format names a caller may give (names written in
\* capitals are left as they are)
FormatUpper(f) ==
    CASE f = "png" -> "PNG" [] f = "Png" -> "PNG"
      [] f = "jpeg" -> "JPEG" [] f = "Jpeg" -> "JPEG"
      [] f = "webp" -> "WEBP" [] f = "WebP" -> "WEBP"
      [] f = "bmp" -> "BMP" [] f = "jpg" -> "JPG" [] f = "Gif" -> "GIF"
      [] OTHER -> f

\* str.lower() on a format name in capitals
FormatLower(f) ==
    CASE f = "PNG" -> "png" [] f = "JPEG" -> "jpeg" [] f = "WEBP" -> "webp"
      [] f = "BMP" -> "bmp" [] f = "JPG" -> "jpg" [] f = "GIF" -> "gif"
      [] OTHER -> f

\* An encoder that hands every format name to Image.save as it is.
OptimizeNoFallback(image, format) == Encode(image, FormatUpper(format))

\* optimize_qr_code_image(image, format, quality)
optimize_qr_code_image(image, format) ==
    IF FormatUpper(format) = "PNG" THEN Encode(image, "PNG")
    ELSE IF FormatUpper(format) = "JPEG" THEN Encode(image, "JPEG")
    ELSE IF FormatUpper(format) = "WEBP" THEN Encode(image, "WEBP")
    ELSE Encode(image, "PNG")

(***************************************************************************)
(* The persistence layer.  A snapshot of the tables and of the storage is  *)
(* a record st = [books, nextId, qrcodes, qrNext, files]; the operators    *)
(* below are the ORM calls of the code, from snapshot to snapshot.         *)
(***************************************************************************)
Cur == [books |-> books, nextId |-> nextId, qrcodes |-> qrcodes,
        qrNext |-> qrNext, files |-> files]

Commit(st) ==
    /\ books' = st.books
    /\ nextId' = st.nextId
    /\ qrcodes' = st.qrcodes
    /\ qrNext' = st.qrNext
    /\ files' = st.files

\* the snapshot st as the initial state
Commit0(st) ==
    /\ books = st.books
    /\ nextId = st.nextId
    /\ qrcodes = st.qrcodes
    /\ qrNext = st.qrNext
    /\ files = st.files

Remove(f, k) == [x \in DOMAIN f \ {k} |-> f[x]]

Put(f, k, v) == [x \in DOMAIN f \cup {k} |-> IF x = k THEN v ELSE f[x]]

\* book.qrcode: the ids of the QRCode rows whose book is id (the reverse
\* side of the OneToOneField)
QrOf(st, id) == {q \in DOMAIN st.qrcodes : st.qrcodes[q].book = id}

\* A storage that always writes under the plain name, over what is there.
GetPlainName(fs, id) == <<id, 0>>

\* Storage.get_available_name: f'qrcode_{id}.png', or, when that name is
\* taken, the name with a fresh suffix.  A name is <<id, n>>; n = 0 is the
\* plain name and the random suffix is the first n not in use.
GetAvailableName(fs, id) ==
    IF <<id, 0>> \notin DOMAIN fs THEN <<id, 0>>
    ELSE <<id, Min({n \in 1..(Cardinality(DOMAIN fs) + 1) : <<id, n>> \notin DOMAIN fs})>>

\* FileSystemStorage._save, first half: os.open(O_CREAT | O_EXCL) under an
\* available name; the file exists and holds none of the content yet.
StorageOpen(st, id, content) ==
    The({ [st |-> [st EXCEPT !.files = Put(@, name, [content EXCEPT !.state = "partial"])],
           name |-> name] : name \in {GetAvailableName(st.files, id)} })

\* FileSystemStorage._save, second half: the chunks are written
StorageWrite(st, name, content) == [st EXCEPT !.files = Put(@, name, content)]

\* FieldFile.save(filename, File(buffer), save=False): [st, name]
StorageSave(st, id, content) ==
    The({ [st |-> StorageWrite(o.st, o.name, content), name |-> o.name] :
          o \in {StorageOpen(st, id, content)} })

\* A generation that encodes the id of the QRCode row, not of its Book.
GenerateWithOwnId(st, q) ==
    The({ The({ [st |-> saved.st, q |-> [q EXCEPT !.qr_code = saved.name]] :
                saved \in {StorageSave(st, q.book, buffer)} }) :
          buffer \in {Encode(GenerateImage(IF q.id # 0 THEN q.id ELSE st.qrNext,
                                           DefaultSize, FALSE, NULL), "PNG")} })

\* QRCode.generate_qr_code(self) with its default arguments, on the
\* instance q: renders, encodes as PNG, stores the file. [st, q]
generate_qr_code(st, q) ==
    The({ The({ [st |-> saved.st, q |-> [q EXCEPT !.qr_code = saved.name]] :
                saved \in {StorageSave(st, q.book, buffer)} }) :
          buffer \in {Encode(GenerateImage(q.book, DefaultSize, FALSE, NULL), "PNG")} })

\* models.Model.save of a QRCode instance: UPDATE the row of its pk, or
\* INSERT it.  The insert is refused (IntegrityError) when another row has
\* the same book (OneToOneField is unique) or the book is gone.
QRCodeRowSave(st, q) ==
    IF q.id # 0 /\ q.id \in DOMAIN st.qrcodes
    THEN [st |-> [st EXCEPT !.qrcodes[q.id] = [book |-> q.book, qr_code |-> q.qr_code]],
          id |-> q.id, err |-> FALSE]
    ELSE IF QrOf(st, q.book) # {} \/ q.book \notin DOMAIN st.books
    THEN [st |-> st, id |-> 0, err |-> TRUE]
    ELSE The({ [st |-> [st EXCEPT !.qrcodes = Put(@, id, [book |-> q.book, qr_code |-> q.qr_code]),
                                  !.qrNext = IF q.id # 0 THEN @ ELSE @ + 1],
                id |-> id, err |-> FALSE] :
               id \in {IF q.id # 0 THEN q.id ELSE st.qrNext} })

\* QRCode.save: generate the image when the field is empty, then save the row
QRCodeSave(st, q) ==
    The({ QRCodeRowSave(g.st, g.q) :
          g \in {IF q.qr_code = NoFile THEN generate_qr_code(st, q)
                 ELSE [st |-> st, q |-> q]} })

\* QRCode.objects.create(book=book)
QRCodeCreate(st, id) == QRCodeSave(st, [id |-> 0, book |-> id, qr_code |-> NoFile])

\* UNIQUE(isbn): SQL NULLs never collide, every other value does
IsbnTaken(st, isbn, except) ==
    isbn # NULL /\ \E b \in DOMAIN st.books \ except : st.books[b].isbn = isbn

\* A Book.save without the creation of the QRCode.
BookSaveNoQRCode(st, id, row) ==
    IF IsbnTaken(st, row.isbn, {id}) THEN [st |-> st, id |-> 0, err |-> TRUE]
    ELSE [st |-> [st EXCEPT !.books = Put(@, id, row)], id |-> 0, err |-> FALSE]

\* Book.save: save the row (IntegrityError when another row holds the
\* isbn), then create the QRCode the book lacks.  [st, id, err]
BookSave(st, id, row) ==
    IF IsbnTaken(st, row.isbn, {id}) THEN [st |-> st, id |-> 0, err |-> TRUE]
    ELSE The({ IF QrOf(saved, id) = {} THEN QRCodeCreate(saved, id)
               ELSE [st |-> saved, id |-> 0, err |-> FALSE] :
               saved \in {[st EXCEPT !.books = Put(@, id, row)]} })

\* Book.objects.create(**row): [st, id, err]
\* (a refused INSERT leaves the table and its id sequence as they were)
BookCreate(st, row) ==
    IF IsbnTaken(st, row.isbn, {}) THEN [st |-> st, id |-> 0, err |-> TRUE]
    ELSE The({ [st |-> r.st, id |-> st.nextId, err |-> r.err] :
               r \in {BookSave([st EXCEPT !.nextId = @ + 1], st.nextId, row)} })

\* on_delete=DO_NOTHING in place of CASCADE: the QRCode rows stay.
BookDeleteNoCascade(st, id) == [st EXCEPT !.books = Remove(@, id)]

\* book.delete(): on_delete=models.CASCADE removes the book's QRCode rows;
\* the stored files stay in the storage.
BookDelete(st, id) ==
    [st EXCEPT !.books = Remove(@, id),
               !.qrcodes = [q \in DOMAIN @ \ QrOf(st, id) |-> @[q]]]

(***************************************************************************)
(* Import of a record of the bibliographic API.                            *)
(***************************************************************************)
\* ', '.join(authors)
RECURSIVE Join(_)
Join(authors) ==
    IF Len(authors) = 1 THEN Head(authors)
    ELSE Head(authors) \o ", " \o Join(Tail(authors))

AllDigits(s) == \A i \in 1..Len(s) : s[i] \in DigitChars

IsLeap(y) == (y % 4 = 0 /\ y % 100 # 0) \/ y % 400 = 0

DaysIn(y, m) ==
    IF m = 2 THEN (IF IsLeap(y) THEN 29 ELSE 28)
    ELSE IF m \in {4, 6, 9, 11} THEN 30 ELSE 31

\* datetime.strptime(s, fmt).date() for the three formats of the helper;
\* NoDate stands for the ValueError the helper catches.  A date is <<y, m, d>>.
StrpYear(s) ==
    IF Len(s) = 4 /\ AllDigits(s) /\ DigitsVal(s) >= 1
    THEN <<DigitsVal(s), 1, 1>> ELSE NoDate

StrpYearMonth(s) ==
    IF /\ Len(s) = 7 /\ s[5] = "-"
       /\ AllDigits(SubSeq(s, 1, 4)) /\ AllDigits(SubSeq(s, 6, 7))
       /\ DigitsVal(SubSeq(s, 1, 4)) >= 1
       /\ DigitsVal(SubSeq(s, 6, 7)) \in 1..12
    THEN <<DigitsVal(SubSeq(s, 1, 4)), DigitsVal(SubSeq(s, 6, 7)), 1>> ELSE NoDate

\* %d: two digits, or a blank and one digit from 1 to 9; 0 when neither
DayVal(s) ==
    IF AllDigits(s) THEN DigitsVal(s)
    ELSE IF s[1] = " " /\ s[2] \in DigitChars THEN DigitVal(s[2])
    ELSE 0

StrpYearMonthDay(s) ==
    IF /\ Len(s) = 10 /\ s[5] = "-" /\ s[8] = "-"
       /\ AllDigits(SubSeq(s, 1, 4)) /\ AllDigits(SubSeq(s, 6, 7))
       /\ DigitsVal(SubSeq(s, 1, 4)) >= 1
       /\ DigitsVal(SubSeq(s, 6, 7)) \in 1..12
       /\ DayVal(SubSeq(s, 9, 10)) \in
              1..DaysIn(DigitsVal(SubSeq(s, 1, 4)), DigitsVal(SubSeq(s, 6, 7)))
    THEN <<DigitsVal(SubSeq(s, 1, 4)), DigitsVal(SubSeq(s, 6, 7)),
           DayVal(SubSeq(s, 9, 10))>>
    ELSE NoDate

\* A parser that reads whatever prefix has the shape of a format.
ParseByPrefix(date_str) ==
    IF Len(date_str) >= 10 /\ StrpYearMonthDay(SubSeq(date_str, 1, 10)) # NoDate
    THEN StrpYearMonthDay(SubSeq(date_str, 1, 10))
    ELSE IF Len(date_str) >= 7 /\ StrpYearMonth(SubSeq(date_str, 1, 7)) # NoDate
    THEN StrpYearMonth(SubSeq(date_str, 1, 7))
    ELSE IF Len(date_str) >= 4 THEN StrpYear(SubSeq(date_str, 1, 4))
    ELSE NoDate

\* the date parsing at the head of save_google_book_to_database;
\* date_str is a sequence of characters, empty for None and for ''
ParsePublishedDate(date_str) ==
    IF date_str = <<>> THEN NoDate
    ELSE IF Len(date_str) = 4 THEN StrpYear(date_str)
    ELSE IF Len(date_str) = 7 THEN StrpYearMonth(date_str)
    ELSE IF Len(date_str) >= 10 THEN StrpYearMonthDay(SubSeq(date_str, 1, 10))
    ELSE NoDate

AuthorStr(authors) == IF authors # <<>> THEN Join(authors) ELSE "Unknown Author"

\* isbn13 or isbn10 or None
RecordIsbn(book_data) ==
    IF Truthy(book_data.isbn13) THEN book_data.isbn13
    ELSE IF Truthy(book_data.isbn10) THEN book_data.isbn10
    ELSE NULL

\* Book.objects.get(isbn=isbn): the id of the row, or 0 (DoesNotExist)
GetByIsbn(st, isbn) ==
    IF \E b \in DOMAIN st.books : st.books[b].isbn = isbn
    THEN CHOOSE b \in DOMAIN st.books : st.books[b].isbn = isbn
    ELSE 0

\* A lookup that takes, of several matching rows, the one created first.
GetByTitleAuthorOldest(st, title, author) ==
    LET found == {b \in DOMAIN st.books :
                    st.books[b].title = title /\ st.books[b].author = author}
    IN  IF found = {} THEN 0 ELSE Min(found)

\* Book.objects.get(title=, author=), and on MultipleObjectsReturned
\* filter(...).first() in the ordering ['-created_at']: the row created
\* last, which has the greatest id.  0 stands for DoesNotExist.
GetByTitleAuthor(st, title, author) ==
    LET found == {b \in DOMAIN st.books :
                    st.books[b].title = title /\ st.books[b].author = author}
    IN  IF found = {} THEN 0 ELSE Max(found)

\* A lookup that tries the (title, author) pair before the ISBN.
FindExistingTitleFirst(st, book_data) ==
    LET isbn == RecordIsbn(book_data)
        byPair == GetByTitleAuthor(st, book_data.title, AuthorStr(book_data.authors))
    IN  IF byPair # 0 THEN byPair
        ELSE IF isbn # NULL THEN GetByIsbn(st, isbn) ELSE 0

\* The lookup of save_google_book_to_database: by ISBN, then by title+author
FindExisting(st, book_data) ==
    LET isbn == RecordIsbn(book_data)
        byIsbn == IF isbn # NULL THEN GetByIsbn(st, isbn) ELSE 0
    IN  IF byIsbn # 0 THEN byIsbn
        ELSE GetByTitleAuthor(st, book_data.title, AuthorStr(book_data.authors))

\* An update path that assigns the record's ISBN whenever the record has one.
UpdatedRowIsbnAlways(row, book_data) ==
    LET publication_date == ParsePublishedDate(book_data.publishedDate)
        isbn == RecordIsbn(book_data)
    IN  [title |-> book_data.title,
         author |-> AuthorStr(book_data.authors),
         isbn |-> IF isbn # NULL THEN isbn ELSE row.isbn,
         description |-> IF Truthy(book_data.description)
                         THEN book_data.description ELSE row.description,
         publication_date |-> IF publication_date # NoDate
                              THEN publication_date ELSE row.publication_date]

\* An update path that assigns the record's description whatever it is.
UpdatedRowDescriptionAlways(row, book_data) ==
    LET publication_date == ParsePublishedDate(book_data.publishedDate)
        isbn == RecordIsbn(book_data)
    IN  [title |-> book_data.title,
         author |-> AuthorStr(book_data.authors),
         isbn |-> IF isbn # NULL /\ ~Truthy(row.isbn) THEN isbn ELSE row.isbn,
         description |-> book_data.description,
         publication_date |-> IF publication_date # NoDate
                              THEN publication_date ELSE row.publication_date]

\* The row the update path writes over the matched row
UpdatedRow(row, book_data) ==
    LET publication_date == ParsePublishedDate(book_data.publishedDate)
        isbn == RecordIsbn(book_data)
    IN  [title |-> book_data.title,
         author |-> AuthorStr(book_data.authors),
         isbn |-> IF isbn # NULL /\ ~Truthy(row.isbn) THEN isbn ELSE row.isbn,
         description |-> IF Truthy(book_data.description)
                         THEN book_data.description ELSE row.description,
         publication_date |-> IF publication_date # NoDate
                              THEN publication_date ELSE row.publication_date]

\* A create path that stores the joined names, without the default author.
CreatedRowRawAuthor(book_data) ==
    [title |-> book_data.title,
     author |-> IF book_data.authors = <<>> THEN "" ELSE Join(book_data.authors),
     isbn |-> RecordIsbn(book_data),
     description |-> book_data.description,
     publication_date |-> ParsePublishedDate(book_data.publishedDate)]

\* The row the create path inserts
CreatedRow(book_data) ==
    [title |-> book_data.title,
     author |-> AuthorStr(book_data.authors),
     isbn |-> RecordIsbn(book_data),
     description |-> book_data.description,
     publication_date |-> ParsePublishedDate(book_data.publishedDate)]

\* save_google_book_to_database(book_data): [st, book, created, err]
save_google_book_to_database(st, book_data) ==
    The({ IF book # 0
          THEN The({ [st |-> r.st, book |-> book, created |-> FALSE, err |-> r.err] :
                     r \in {BookSave(st, book, UpdatedRow(st.books[book], book_data))} })
          ELSE The({ [st |-> r.st, book |-> r.id, created |-> TRUE, err |-> r.err] :
                     r \in {BookCreate(st, CreatedRow(book_data))} }) :
          book \in {FindExisting(st, book_data)} })

(***************************************************************************)
(* Decoding and validation.                                                *)
(***************************************************************************)
\* A file of the storage is an encoded image with a state: "ok", "partial"
\* (being written), "truncated" (a good header, damaged data), "garbage"
\* (not an image) or "removed" (no file under the name any more).
NoImage == [format |-> "", payload |-> <<>>, level |-> "", w |-> 0, h |-> 0,
            logo |-> FALSE, state |-> "none"]

\* Image.open(path) succeeds: the file is there and its header is readable
Opens(fs, name) == name \in DOMAIN fs /\ fs[name].state \in {"ok", "truncated"}

\* img.convert(...), img.resize(...), img.save(...) succeed: the pixel data load
Loads(fs, name) == Opens(fs, name) /\ fs[name].state = "ok"

\* pyzbar.decode(img): the payload of the symbol found, or <<>> when none is
\* found; a symbol is found when every module, quiet zone included, gets at
\* least one pixel in each direction.
PyzbarDecode(file) ==
    LET modules == 17 + 4 * BestFit(file.payload, file.level) + 2 * QR_BORDER
    IN  IF file.w >= modules /\ file.h >= modules THEN file.payload ELSE <<>>

\* A validation whose import of the decoder comes after the image is read.
ValidateImportLast(st, q, installed) ==
    IF q.qr_code = NoFile THEN "false"
    ELSE IF ~Loads(st.files, q.qr_code) THEN "false"
    ELSE IF ~installed THEN "unknown"
    ELSE IF PyzbarDecode(st.files[q.qr_code]) = <<>> THEN "false"
    ELSE IF PyzbarDecode(st.files[q.qr_code]) = QrData(q.book) THEN "true"
    ELSE "false"

\* QRCode.validate_qr_code(self) on the row q: the 'valid' entry of the
\* result, "true", "false" or "unknown" (None)
validate_qr_code(st, q, installed) ==
    IF q.qr_code = NoFile THEN "false"
    ELSE IF ~installed THEN "unknown"
    ELSE IF ~Loads(st.files, q.qr_code) THEN "false"
    ELSE IF PyzbarDecode(st.files[q.qr_code]) = <<>> THEN "false"
    ELSE IF PyzbarDecode(st.files[q.qr_code]) = QrData(q.book) THEN "true"
    ELSE "false"

(***************************************************************************)
(* Requests.  resp is the response of the last request handled.            *)
(***************************************************************************)
NoResp == [op |-> "none", arg |-> <<>>, status |-> 0, book |-> 0, created |-> FALSE,
           valid |-> "none", ctype |-> "", image |-> NoImage]

NoCall == [fn |-> "none"]

Resp(op, status, book) == [NoResp EXCEPT !.op = op, !.status = status, !.book = book]

Ids == 1..MaxId

Titles == {"T1", "T2"}

\* What a client posts to create or update a Book
BookInputs ==
    [title : Titles, author : {"A, B", "Unknown Author"}, isbn : {NULL, "", "I1"},
     description : {NULL}, publication_date : {NoDate}]

\* Normalized records of the bibliographic API
Records ==
    [title : Titles, authors : {<<>>, <<"A", "B">>}, isbn13 : {NULL, "I1"},
     isbn10 : {NULL, "I2"}, description : {NULL}, publishedDate : {<<>>}]
    \cup
    [title : Titles, authors : {<<"A", "B">>}, isbn13 : {NULL, "I1"},
     isbn10 : {NULL}, description : {"D1"},
     publishedDate : {<<"2", "0", "2", "0">>}]

\* The bounds of the model on a snapshot
Bounded(st) ==
    /\ st.nextId <= MaxId + 1
    /\ st.qrNext <= MaxQr + 1
    /\ Cardinality(DOMAIN st.files) <= MaxFiles

\* No regenerate request is in flight, and none starts
Idle == /\ DOMAIN pc = {}
        /\ UNCHANGED <<pc, req, pyzbar, call>>

SameState == UNCHANGED <<books, nextId, qrcodes, qrNext, files>>

\* BookViewSet.create: BookCreateSerializer validates (the UniqueValidator
\* of isbn is not run on None or ''), then serializer.save() inserts.
Create(data) ==
    /\ IF Truthy(data.isbn) /\ IsbnTaken(Cur, data.isbn, {})
       THEN /\ resp' = Resp("create", 400, 0)
            /\ SameState
       ELSE \E r \in {BookCreate(Cur, data)} :
                /\ Bounded(r.st)
                /\ Commit(r.st)
                /\ resp' = IF r.err THEN Resp("create", 500, 0)
                           ELSE [Resp("create", 201, r.id) EXCEPT !.created = TRUE]
    /\ Idle

\* ModelViewSet.update (PUT): BookSerializer validates, the fields are set
\* and instance.save() runs Book.save
Update(id, data) ==
    /\ IF id \notin DOMAIN books
       THEN /\ resp' = Resp("update", 404, id)
            /\ SameState
       ELSE IF Truthy(data.isbn) /\ IsbnTaken(Cur, data.isbn, {id})
       THEN /\ resp' = Resp("update", 400, id)
            /\ SameState
       ELSE \E r \in {BookSave(Cur, id, data)} :
                /\ Bounded(r.st)
                /\ Commit(r.st)
                /\ resp' = Resp("update", IF r.err THEN 500 ELSE 200, id)
    /\ Idle

\* ModelViewSet.destroy
Destroy(id) ==
    /\ IF id \in DOMAIN books
       THEN /\ Commit(BookDelete(Cur, id))
            /\ resp' = Resp("destroy", 204, id)
       ELSE /\ resp' = Resp("destroy", 404, id)
            /\ SameState
    /\ Idle

\* BookViewSet.import_from_google_books once the record is fetched:
\* save_google_book_to_database, then 201 or 200; resp.arg keeps the record
Import(book_data) ==
    /\ \E r \in {save_google_book_to_database(Cur, book_data)} :
           /\ Bounded(r.st)
           /\ Commit(r.st)
           /\ resp' = IF r.err THEN [Resp("import", 500, 0) EXCEPT !.arg = book_data]
                      ELSE [Resp("import", IF r.created THEN 201 ELSE 200, r.book)
                               EXCEPT !.created = r.created, !.arg = book_data]
    /\ Idle

\* QRCodeAdmin (ModelAdmin): the admin site deletes a QRCode row
AdminDeleteQRCode(q) ==
    /\ q \in DOMAIN qrcodes
    /\ qrcodes' = Remove(qrcodes, q)
    /\ resp' = Resp("admin_delete_qrcode", 302, qrcodes[q].book)
    /\ UNCHANGED <<books, nextId, qrNext, files>>
    /\ Idle

\* A lookup that takes the first row of the table whatever its Book.
RegenerateLookupFirstRow(st, id) ==
    IF DOMAIN st.qrcodes # {}
    THEN The({ [st |-> st, err |-> FALSE,
                q |-> [id |-> q, book |-> st.qrcodes[q].book,
                       qr_code |-> st.qrcodes[q].qr_code]] :
               q \in {CHOOSE x \in DOMAIN st.qrcodes :
                         \A y \in DOMAIN st.qrcodes : x <= y} })
    ELSE [st |-> st, err |-> TRUE, q |-> [id |-> 0, book |-> id, qr_code |-> NoFile]]

\* BookViewSet.regenerate_qrcode, first part: book.qrcode, or
\* QRCode.objects.create(book=book) when the book has none.
\* [st, q, err] with q the QRCode instance the request works on
RegenerateLookup(st, id) ==
    IF QrOf(st, id) # {}
    THEN The({ [st |-> st, err |-> FALSE,
                q |-> [id |-> q, book |-> id, qr_code |-> st.qrcodes[q].qr_code]] :
               q \in {CHOOSE x \in QrOf(st, id) : TRUE} })
    ELSE The({ [st |-> r.st, err |-> r.err,
                q |-> IF r.err THEN [id |-> 0, book |-> id, qr_code |-> NoFile]
                      ELSE [id |-> r.id, book |-> id,
                            qr_code |-> r.st.qrcodes[r.id].qr_code]] :
               r \in {QRCodeCreate(st, id)} })

\* create_enhanced_qr_code(qr_data, size, error_correction, fill, back) with
\* the default border, then optimize_qr_code_image(qr_img, 'PNG', quality)
RegenerateBuffer(id, params) ==
    optimize_qr_code_image(
        create_enhanced_qr_code(QrData(id), params.size, params.error_correction,
                                TRUE, DEFAULT_BORDER_SIZE),
        "PNG")

\* What a client posts to regenerate_qrcode
RegenerateParams ==
    {[size |-> <<330, 330>>, error_correction |-> "H"],
     [size |-> <<20, 10>>, error_correction |-> "l"]}

\* BookViewSet.regenerate_qrcode as one request
Regenerate(id, params) ==
    /\ IF id \notin DOMAIN books
       THEN /\ resp' = Resp("regenerate_qrcode", 404, id)
            /\ SameState
       ELSE \E found \in {RegenerateLookup(Cur, id)} :
            \E buffer \in {RegenerateBuffer(id, params)} :
            \E saved \in {StorageSave(found.st, id, buffer)} :
            \E r \in {QRCodeSave(saved.st, [found.q EXCEPT !.qr_code = saved.name])} :
                IF found.err
                THEN /\ Bounded(found.st)
                     /\ Commit(found.st)
                     /\ resp' = Resp("regenerate_qrcode", 500, id)
                ELSE /\ Bounded(r.st)
                     /\ Commit(r.st)
                     /\ resp' = Resp("regenerate_qrcode", IF r.err THEN 500 ELSE 200, id)
    /\ Idle

\* A resize that fits a pair inside the box whatever maintain_aspect says.
ResizeAlwaysFit(image, size, maintain_aspect) ==
    IF Len(size) = 1 THEN Resize(image, <<size[1], size[1]>>)
    ELSE IF image.w * size[2] > size[1] * image.h
    THEN Resize(image, <<size[1], (size[1] * image.h) \div image.w>>)
    ELSE Resize(image, <<(size[2] * image.w) \div image.h, size[2]>>)

(***************************************************************************)
(* Python floats (IEEE 754 binary64) on the quotients and products of      *)
(* resize_qr_code_image.  A float is [m, e] of value m * 2^e, m the 53-bit *)
(* significand as four limbs <<8 bits, 15 bits, 15 bits, 15 bits>>.        *)
(* Intermediate numbers are limbs whose first is as wide as it needs.      *)
(***************************************************************************)
LimbBase == 2^15

\* The number of bits of a positive integer
BitLength(n) == CHOOSE k \in 1..31 : n < 2^k /\ (k = 1 \/ n >= 2^(k - 1))

LimbsGe(a, b) ==
    \/ a = b
    \/ \E i \in 1..4 : a[i] > b[i] /\ \A j \in 1..(i - 1) : a[j] = b[j]

\* a - b for a >= b
LimbsSub(a, b) ==
    LET d4 == a[4] - b[4]
        d3 == a[3] - b[3] - (IF d4 < 0 THEN 1 ELSE 0)
        d2 == a[2] - b[2] - (IF d3 < 0 THEN 1 ELSE 0)
        d1 == a[1] - b[1] - (IF d2 < 0 THEN 1 ELSE 0)
    IN  <<d1, d2 % LimbBase, d3 % LimbBase, d4 % LimbBase>>

\* a * n + c for n below 2^15 and c below 2^15
LimbsMulAdd(a, n, c) ==
    LET p4 == a[4] * n + c
        p3 == a[3] * n + (p4 \div LimbBase)
        p2 == a[2] * n + (p3 \div LimbBase)
        p1 == a[1] * n + (p2 \div LimbBase)
    IN  <<p1, p2 % LimbBase, p3 % LimbBase, p4 % LimbBase>>

\* Round to nearest, ties to even: the float nearest to a * 2^e, a of 53
\* bits or more, and to a little more than a * 2^e when sticky
RoundHalfEven(a, e, sticky) ==
    LET k == BitLength(a[1]) - 8
        p == 2^k
        r == 2^(15 - k)
        dropped == a[4] % p
        b == <<a[1] \div p,
               (a[2] \div p) + (a[1] % p) * r,
               (a[3] \div p) + (a[2] % p) * r,
               (a[4] \div p) + (a[3] % p) * r>>
        up == /\ k >= 1
              /\ \/ 2 * dropped > p
                 \/ 2 * dropped = p /\ (sticky \/ b[4] % 2 = 1)
        c == IF up THEN LimbsMulAdd(b, 1, 1) ELSE b
    IN  IF c[1] = 2^8 THEN [m |-> <<2^7, 0, 0, 0>>, e |-> e + k + 1]
        ELSE [m |-> c, e |-> e + k]

\* float(n) for a positive integer below 2^23
FloatOf(n) ==
    LET L == BitLength(n)
        top == n * 2^(23 - L)
    IN  [m |-> <<top \div LimbBase, top % LimbBase, 0, 0>>, e |-> L - 53]

\* n hexadecimal digits of the quotient by d, taken from r, which is 16
\* times the remainder so far but for the first digit; q collects them
RECURSIVE DivideDigits(_, _, _, _)
DivideDigits(r, d, n, q) ==
    IF n = 0 THEN [q |-> q, sticky |-> r # <<0, 0, 0, 0>>]
    ELSE CHOOSE res \in
            { DivideDigits(LimbsMulAdd(LimbsSub(r, LimbsMulAdd(d, digit, 0)), 16, 0),
                           d, n - 1, LimbsMulAdd(q, 16, digit)) :
              digit \in {Cardinality({c \in 1..15 : LimbsGe(r, LimbsMulAdd(d, c, 0))})} } :
            TRUE

\* x / y, correctly rounded
FloatDiv(x, y) ==
    CHOOSE f \in { RoundHalfEven(res.q, x.e - y.e - 56, res.sticky) :
                   res \in {DivideDigits(x.m, y.m, 15, <<0, 0, 0, 0>>)} } : TRUE

\* n * x for an integer n below 2^15 (float(n) is exact)
FloatMulInt(n, x) ==
    CHOOSE f \in { RoundHalfEven(a, x.e, FALSE) : a \in {LimbsMulAdd(x.m, n, 0)} } : TRUE

\* x > y
FloatGt(x, y) ==
    \/ x.e > y.e
    \/ x.e = y.e /\ LimbsGe(x.m, y.m) /\ x.m # y.m

\* int(x): the integer part, for x below 2^23
IntOf(x) ==
    IF -x.e >= 53 THEN 0
    ELSE IF -x.e >= 45 THEN x.m[1] \div 2^(-x.e - 45)
    ELSE (x.m[1] * LimbBase + x.m[2]) \div 2^(-x.e - 30)

\* The size resize_qr_code_image hands to Image.resize
TargetSize(w, h, size, maintain_aspect) ==
    IF Len(size) = 1
    THEN CHOOSE t \in
            { IF w > h
              THEN <<size[1], IntOf(FloatDiv(FloatOf(size[1]), aspect_ratio))>>
              ELSE <<IntOf(FloatMulInt(size[1], aspect_ratio)), size[1]>> :
              aspect_ratio \in {FloatDiv(FloatOf(w), FloatOf(h))} } : TRUE
    ELSE IF maintain_aspect
    THEN CHOOSE t \in
            { IF FloatGt(original_ratio, target_ratio)
              THEN <<size[1], IntOf(FloatDiv(FloatOf(size[1]), original_ratio))>>
              ELSE <<IntOf(FloatMulInt(size[2], original_ratio)), size[2]>> :
              original_ratio \in {FloatDiv(FloatOf(w), FloatOf(h))},
              target_ratio \in {FloatDiv(FloatOf(size[1]), FloatOf(size[2]))} } : TRUE
    ELSE size

\* The calls that recur in the requests, and their sizes computed once
RecurringCalls ==
    {<<500, 500, <<100>>, TRUE>>, <<330, 330, <<100>>, TRUE>>,
     <<20, 10, <<100>>, TRUE>>}

RecurringSizes ==
    {<<k, TargetSize(k[1], k[2], k[3], k[4])>> : k \in RecurringCalls}

\* resize_qr_code_image(image, size, maintain_aspect); size is <<s>> for a
\* single dimension and <<w, h>> for a pair
resize_qr_code_image(image, size, maintain_aspect) ==
    Resize(image,
           IF <<image.w, image.h, size, maintain_aspect>> \in RecurringCalls
           THEN (CHOOSE p \in RecurringSizes :
                    p[1] = <<image.w, image.h, size, maintain_aspect>>)[2]
           ELSE TargetSize(image.w, image.h, size, maintain_aspect))

\* Image.open of a stored file, as the image the Pillow helpers work on
Opened(file) ==
    [payload |-> file.payload, level |-> file.level, w |-> file.w, h |-> file.h,
     logo |-> file.logo, ops |-> <<"open">>]

\* QRCode.process_qr_code_image(self, resize, format, quality) on the row
\* q: the encoded image, or NoImage for the None it returns without an image
\* name and when anything raises.  resize is <<>> for None.
process_qr_code_image(st, q, resize, format) ==
    IF q.qr_code = NoFile THEN NoImage
    ELSE IF ~Loads(st.files, q.qr_code) THEN NoImage
    ELSE IF resize # <<>> /\ (resize[1] <= 0 \/ resize[2] <= 0) THEN NoImage
    ELSE The({ IF FormatUpper(format) = "PNG" THEN Encode(img, "PNG")
               ELSE IF FormatUpper(format) = "JPEG" THEN Encode(img, "JPEG")
               ELSE IF FormatUpper(format) = "WEBP" THEN Encode(img, "WEBP")
               ELSE Encode(img, "PNG") :
               img \in {IF resize # <<>> THEN Resize(Opened(st.files[q.qr_code]), resize)
                        ELSE Opened(st.files[q.qr_code])} })

\* Query parameters of the QR retrieval: format (as typed by the client,
\* before .upper()) and size (<<>> when absent)
QrcodeParams ==
    {[format |-> "png", size |-> <<>>],
     [format |-> "webp", size |-> <<300, 300>>],
     [format |-> "jpeg", size |-> <<100>>],
     [format |-> "bmp", size |-> <<>>]}

\* The image response of BookViewSet.qrcode for the stored file, or NoImage
\* when an exception sends the handler to its JSON fallback
QrcodeImage(file, params) ==
    LET img == Opened(file)
        sized == IF params.size # <<>>
                 THEN resize_qr_code_image(img, params.size, Len(params.size) = 1)
                 ELSE img
    IN  IF file.state # "ok" \/ sized.w <= 0 \/ sized.h <= 0 THEN NoImage
        ELSE optimize_qr_code_image(sized, FormatUpper(params.format))

\* BookViewSet.qrcode; resp.arg keeps the query parameters
Qrcode(id, params) ==
    /\ IF id \notin DOMAIN books
       THEN /\ resp' = Resp("qrcode", 404, id)
            /\ SameState
       ELSE \E found \in {RegenerateLookup(Cur, id)} :
            \E image \in {IF (params.size # <<>> \/ FormatUpper(params.format) # "PNG")
                              /\ found.q.qr_code # NoFile
                              /\ Opens(found.st.files, found.q.qr_code)
                           THEN QrcodeImage(found.st.files[found.q.qr_code], params)
                           ELSE NoImage} :
                /\ Bounded(found.st)
                /\ Commit(found.st)
                /\ resp' = IF found.err THEN Resp("qrcode", 500, id)
                           ELSE IF image # NoImage
                           THEN [Resp("qrcode", 200, id) EXCEPT
                                    !.arg = params,
                                    !.ctype = "image/" \o FormatLower(FormatUpper(params.format)),
                                    !.image = image]
                           ELSE [Resp("qrcode", 200, id) EXCEPT
                                    !.arg = params,
                                    !.ctype = "application/json"]
    /\ Idle

\* Payloads a client posts to scan_qrcode
ScanInputs ==
    {QrData(n) : n \in 0..(MaxId + 1)} \cup
    { BookPrefix \o <<"1", "2">>,
      BookPrefix \o <<"0", "1">>,
      BookPrefix \o <<" ", "2">>,
      BookPrefix \o <<"-", "1">>,
      BookPrefix \o <<"+", "1">>,
      BookPrefix \o <<"x">>,
      BookPrefix \o <<"1", "x">>,
      BookPrefix,
      <<"b", "o", "o", "k", "1">>,
      <<"B", "o", "o", "k", ":", "1">>,
      <<"i", "d", ":", "1">>,
      <<"1">>,
      <<" ">>,
      <<>> }

\* BookViewSet.scan_qrcode: the status and the book of the response.
\* QRCodeScanSerializer (a CharField) trims the value and refuses a blank one.
ScanResult(st, posted) ==
    LET qr_data == Strip(posted)
        book_id == IntParse(SubSeq(qr_data, Len(BookPrefix) + 1, Len(qr_data)))
    IN  IF qr_data = <<>> THEN [status |-> 400, book |-> 0]
        ELSE IF ~StartsWith(qr_data, BookPrefix) THEN [status |-> 400, book |-> 0]
        ELSE IF ~book_id.ok THEN [status |-> 400, book |-> 0]
        ELSE IF book_id.val \in DOMAIN st.books THEN [status |-> 200, book |-> book_id.val]
        ELSE [status |-> 404, book |-> 0]

\* A scan that answers every failure with 404.
ScanResultAll404(st, posted) ==
    LET r == ScanResult(st, posted)
    IN  IF r.status = 400 THEN [r EXCEPT !.status = 404] ELSE r

scan_qrcode(st, posted) == ScanResult(st, posted)

\* the request; resp.arg keeps what was posted
Scan(posted) ==
    /\ \E r \in {scan_qrcode(Cur, posted)} :
           resp' = [Resp("scan_qrcode", r.status, r.book) EXCEPT !.arg = posted]
    /\ SameState
    /\ Idle

\* An empty database and storage; the decoder library is installed
Init ==
    /\ books = [b \in {} |-> 0]
    /\ nextId = 1
    /\ qrcodes = [q \in {} |-> 0]
    /\ qrNext = 1
    /\ files = [f \in {} |-> 0]
    /\ pyzbar = TRUE
    /\ resp = NoResp
    /\ pc = [r \in {} |-> 0]
    /\ req = [r \in {} |-> 0]
    /\ call = NoCall

\* The requests of the artifact life cycle, on a small catalog
LifecycleInputs ==
    [title : {"T1"}, author : {"A, B"}, isbn : {NULL, "I1"},
     description : {NULL}, publication_date : {NoDate}]

LifecycleRecords ==
    [title : {"T1"}, authors : {<<"A", "B">>}, isbn13 : {NULL, "I1"},
     isbn10 : {NULL}, description : {NULL}, publishedDate : {<<>>}]

Next ==
    \/ \E data \in LifecycleInputs : Create(data)
    \/ \E id \in Ids, data \in LifecycleInputs : Update(id, data)
    \/ \E id \in Ids : Destroy(id)
    \/ \E book_data \in LifecycleRecords : Import(book_data)
    \/ \E id \in Ids, params \in QrcodeParams : Qrcode(id, params)
    \/ \E id \in Ids, params \in RegenerateParams : Regenerate(id, params)
    \/ \E q \in 1..MaxQr : AdminDeleteQRCode(q)

Spec == Init /\ [][Next]_vars

\* Creates, deletes and imports, on the full sets of inputs
NextImport ==
    \/ \E data \in BookInputs : Create(data)
    \/ \E id \in Ids : Destroy(id)
    \/ \E book_data \in Records : Import(book_data)

SpecImport == Init /\ [][NextImport]_vars

\* Creates, deletes and scans
NextScan ==
    \/ \E data \in LifecycleInputs : Create(data)
    \/ \E id \in Ids : Destroy(id)
    \/ \E posted \in ScanInputs : Scan(posted)

SpecScan == Init /\ [][NextScan]_vars

(***************************************************************************)
(* Validation of stored images.  The files of the storage live on a disk   *)
(* other programs write to: a file can be damaged, removed or replaced.    *)
(***************************************************************************)
\* A file as the application wrote it
Pristine(name) ==
    /\ name \in DOMAIN files
    /\ files[name].state = "ok"
    /\ files[name].payload = QrData(name[1])

\* The file a QRCode row names (the files no row names are never read)
Referenced(name) == \E q \in DOMAIN qrcodes : qrcodes[q].qr_code = name

\* One fault at a time: no file that a row names is disturbed already
Undisturbed == \A q \in DOMAIN qrcodes : Pristine(qrcodes[q].qr_code)

\* the stored file is damaged: "truncated" keeps a readable header,
\* "garbage" does not
DamageFile(name, how) ==
    /\ Undisturbed
    /\ Referenced(name)
    /\ files' = [files EXCEPT ![name].state = how]
    /\ resp' = Resp("disk", 0, 0)
    /\ UNCHANGED <<books, nextId, qrcodes, qrNext>>
    /\ Idle

\* the stored file is removed from the disk; its name stays in the row
\* (state "removed": the name is not given to a later file)
RemoveFile(name) ==
    /\ Undisturbed
    /\ Referenced(name)
    /\ files' = [files EXCEPT ![name].state = "removed"]
    /\ resp' = Resp("disk", 0, 0)
    /\ UNCHANGED <<books, nextId, qrcodes, qrNext>>
    /\ Idle

\* the stored file is replaced by a copy of another stored file
ReplaceFile(name, other) ==
    /\ Undisturbed
    /\ Referenced(name)
    /\ Pristine(other)
    /\ other[1] # name[1]
    /\ files' = [files EXCEPT ![name] = files[other]]
    /\ resp' = Resp("disk", 0, 0)
    /\ UNCHANGED <<books, nextId, qrcodes, qrNext>>
    /\ Idle

\* qrcode.validate_qr_code() on the row q; resp.arg keeps the image name
Validate(q) ==
    /\ q \in DOMAIN qrcodes
    /\ resp' = [Resp("validate_qr_code", 0, qrcodes[q].book) EXCEPT
                   !.arg = qrcodes[q].qr_code,
                   !.valid = validate_qr_code(Cur, [id |-> q, book |-> qrcodes[q].book,
                                                    qr_code |-> qrcodes[q].qr_code],
                                              pyzbar)]
    /\ SameState
    /\ Idle

\* QRCode(book=book).validate_qr_code(): an instance that was never saved
\* has no image
ValidateUnsaved(id) ==
    /\ id \in DOMAIN books
    /\ resp' = [Resp("validate_qr_code", 0, id) EXCEPT
                   !.arg = NoFile,
                   !.valid = validate_qr_code(Cur, [id |-> 0, book |-> id,
                                                    qr_code |-> NoFile],
                                              pyzbar)]
    /\ SameState
    /\ Idle

\* BookViewSet.qrcode_info: 404 without a QRCode or an image name, 500 when
\* get_qr_code_info cannot open the file, else the info with the validation
QrcodeInfo(id) ==
    /\ IF id \notin DOMAIN books \/ QrOf(Cur, id) = {}
       THEN resp' = Resp("qrcode_info", 404, id)
       ELSE \E q \in {CHOOSE x \in QrOf(Cur, id) : TRUE} :
            IF qrcodes[q].qr_code = NoFile
            THEN resp' = Resp("qrcode_info", 404, id)
            ELSE IF ~Opens(files, qrcodes[q].qr_code)
            THEN resp' = Resp("qrcode_info", 500, id)
            ELSE resp' = [Resp("qrcode_info", 200, id) EXCEPT
                             !.arg = qrcodes[q].qr_code,
                             !.valid = validate_qr_code(Cur, [id |-> q, book |-> id,
                                                              qr_code |-> qrcodes[q].qr_code],
                                                        pyzbar)]
    /\ SameState
    /\ Idle

\* An empty database and storage, in a runtime with or without the decoder
InitValidate ==
    /\ books = [b \in {} |-> 0]
    /\ nextId = 1
    /\ qrcodes = [q \in {} |-> 0]
    /\ qrNext = 1
    /\ files = [f \in {} |-> 0]
    /\ pyzbar \in BOOLEAN
    /\ resp = NoResp
    /\ pc = [r \in {} |-> 0]
    /\ req = [r \in {} |-> 0]
    /\ call = NoCall

FileNames == {<<id, n>> : id \in Ids, n \in 0..MaxFiles}

ValidateInputs ==
    [title : {"T1"}, author : {"A, B"}, isbn : {NULL},
     description : {NULL}, publication_date : {NoDate}]

ValidateParams == {[size |-> <<20, 10>>, error_correction |-> "l"]}

NextValidate ==
    \/ \E data \in ValidateInputs : Create(data)
    \/ \E id \in Ids, params \in ValidateParams : Regenerate(id, params)
    \/ \E name \in FileNames, how \in {"truncated", "garbage"} : DamageFile(name, how)
    \/ \E name \in FileNames : RemoveFile(name)
    \/ \E name \in FileNames, other \in FileNames : ReplaceFile(name, other)
    \/ \E q \in 1..MaxQr : Validate(q)
    \/ \E id \in Ids : ValidateUnsaved(id)
    \/ \E id \in Ids : QrcodeInfo(id)

SpecValidate == InitValidate /\ [][NextValidate]_vars

(***************************************************************************)
(* Two regenerate_qrcode requests on the same Book, step by step.  Each    *)
(* request runs in its own worker and holds its own QRCode instance; the   *)
(* steps of the two interleave freely.                                     *)
(***************************************************************************)
Reqs == {1, 2}

EmptyState == [books |-> [b \in {} |-> 0], nextId |-> 1,
               qrcodes |-> [q \in {} |-> 0], qrNext |-> 1,
               files |-> [f \in {} |-> 0]]

RegenBook == 1

RegenParams ==
    {[size |-> DefaultSize, error_correction |-> "H"],
     [size |-> <<330, 330>>, error_correction |-> "H"],
     [size |-> <<20, 10>>, error_correction |-> "l"]}

\* The Book was created through the API (so it has its QRCode and the file
\* qrcode_1.png); both requests have been received.
InitRegen ==
    /\ \E data \in ValidateInputs : Commit0(BookCreate(EmptyState, data).st)
    /\ pyzbar = TRUE
    /\ resp = NoResp
    /\ call = NoCall
    /\ pc = [r \in Reqs |-> "lookup"]
    /\ req \in [Reqs -> [book : {RegenBook}, params : RegenParams,
                         q : {[id |-> 0, book |-> RegenBook, qr_code |-> NoFile]},
                         name : {NoFile}, order : {0}]]

\* book = self.get_object(); qrcode = book.qrcode (or the create)
RegenLookup(r) ==
    /\ pc[r] = "lookup"
    /\ IF req[r].book \notin DOMAIN books
       THEN /\ pc' = [pc EXCEPT ![r] = "done"]
            /\ resp' = Resp("regenerate_qrcode", 404, req[r].book)
            /\ UNCHANGED req
            /\ SameState
       ELSE \E found \in {RegenerateLookup(Cur, req[r].book)} :
            /\ Commit(found.st)
            /\ req' = [req EXCEPT ![r].q = found.q]
            /\ pc' = [pc EXCEPT ![r] = IF found.err THEN "error" ELSE "open"]
            /\ resp' = IF found.err THEN Resp("regenerate_qrcode", 500, req[r].book)
                       ELSE resp
    /\ UNCHANGED <<pyzbar, call>>

\* qrcode.qr_code.save(filename, File(buffer), save=False): the file is
\* created under an available name
RegenOpen(r) ==
    /\ pc[r] = "open"
    /\ \E o \in {StorageOpen(Cur, req[r].book, RegenerateBuffer(req[r].book, req[r].params))} :
        /\ Commit(o.st)
        /\ req' = [req EXCEPT ![r].name = o.name]
    /\ pc' = [pc EXCEPT ![r] = "write"]
    /\ UNCHANGED <<pyzbar, call, resp>>

\* ... and its content is written; the instance now names the file
RegenWrite(r) ==
    /\ pc[r] = "write"
    /\ Commit(StorageWrite(Cur, req[r].name,
                           RegenerateBuffer(req[r].book, req[r].params)))
    /\ req' = [req EXCEPT ![r].q.qr_code = req[r].name]
    /\ pc' = [pc EXCEPT ![r] = "save"]
    /\ UNCHANGED <<pyzbar, call, resp>>

\* qrcode.save(), then the 200 response; order counts the row saves
RegenSave(r) ==
    /\ pc[r] = "save"
    /\ \E saved \in {QRCodeSave(Cur, req[r].q)} :
        /\ Commit(saved.st)
        /\ pc' = [pc EXCEPT ![r] = IF saved.err THEN "error" ELSE "done"]
        /\ resp' = Resp("regenerate_qrcode", IF saved.err THEN 500 ELSE 200, req[r].book)
    /\ req' = [req EXCEPT ![r].order = 1 + Max({req[x].order : x \in Reqs})]
    /\ UNCHANGED <<pyzbar, call>>

\* The next step of request r
RegenStep(r) == RegenLookup(r) \/ RegenOpen(r) \/ RegenWrite(r) \/ RegenSave(r)

NextRegen == \E r \in Reqs : RegenStep(r)

\* Each request is served by a worker that keeps running: a request that
\* can take its next step eventually takes it.
SpecRegen == InitRegen /\ [][NextRegen]_vars /\ \A r \in Reqs : WF_vars(RegenStep(r))

(***************************************************************************)
(* The rendering functions, called on arguments of every kind.             *)
(***************************************************************************)
RenderSizes == {<<1, 1>>, <<290, 290>>, <<330, 330>>, <<500, 500>>, <<300, 200>>}

RenderBorders == {0, DEFAULT_BORDER_SIZE, 35}

RenderLevels == {"H", "l", "x"}

InitRender ==
    /\ Commit0(EmptyState)
    /\ pyzbar = TRUE
    /\ resp = NoResp
    /\ pc = [r \in {} |-> 0]
    /\ req = [r \in {} |-> 0]
    /\ call = NoCall

CallCreateEnhanced(id, size, error_correction, add_border, border_size) ==
    /\ call' = [fn |-> "create_enhanced_qr_code", size |-> size,
                add_border |-> add_border, border_size |-> border_size,
                result |-> create_enhanced_qr_code(QrData(id), size, error_correction,
                                                   add_border, border_size)]
    /\ UNCHANGED <<books, nextId, qrcodes, qrNext, files, pyzbar, resp, pc, req>>

CallGenerate(id, size, add_logo, logo_path) ==
    /\ call' = [fn |-> "generate_qr_code", id |-> id, size |-> size,
                add_logo |-> add_logo, logo_path |-> logo_path,
                result |-> GenerateImage(id, size, add_logo, logo_path)]
    /\ UNCHANGED <<books, nextId, qrcodes, qrNext, files, pyzbar, resp, pc, req>>

\* QR images a caller hands to add_logo_to_qr_code: rendered ones, and one
\* so small that a fifth of its side is less than a pixel
LogoCanvases ==
    {MakeImage(QrData(id), "H") : id \in Ids} \cup
    {Resize(MakeImage(QrData(1), "H"), <<3, 3>>)}

CallAddLogo(qr_image, logo_path) ==
    /\ call' = [fn |-> "add_logo_to_qr_code", image |-> qr_image,
                logo_path |-> logo_path,
                result |-> add_logo_to_qr_code(qr_image, logo_path, 20)]
    /\ UNCHANGED <<books, nextId, qrcodes, qrNext, files, pyzbar, resp, pc, req>>

\* Format names a caller may give
FormatNames == {"PNG", "png", "Png", "JPEG", "jpeg", "WEBP", "WebP", "BMP", "bmp",
                "jpg", "Gif", ""}

\* call.n tells a call from the same call made once more
CallOptimize(image, format) ==
    /\ call' = [fn |-> "optimize_qr_code_image", image |-> image, format |-> format,
                n |-> IF call.fn = "optimize_qr_code_image" THEN 1 - call.n ELSE 0,
                result |-> optimize_qr_code_image(image, format)]
    /\ UNCHANGED <<books, nextId, qrcodes, qrNext, files, pyzbar, resp, pc, req>>

NextRender ==
    \/ \E qr_image \in LogoCanvases, logo_path \in LogoFiles :
          CallAddLogo(qr_image, logo_path)
    \/ \E id \in Ids, size \in RenderSizes, error_correction \in RenderLevels,
          add_border \in BOOLEAN, border_size \in RenderBorders :
          CallCreateEnhanced(id, size, error_correction, add_border, border_size)
    \/ \E id \in Ids, size \in RenderSizes, add_logo \in BOOLEAN,
          logo_path \in LogoFiles \cup {NULL} :
          CallGenerate(id, size, add_logo, logo_path)

SpecRender == InitRender /\ [][NextRender]_vars

(***************************************************************************)
(* Properties of the artifact life cycle (specification Spec).             *)
(***************************************************************************)
\* C1: in every state reached by creates, updates, imports, QR retrievals,
\* regenerations, deletes of books and admin deletes of QRCode rows, every
\* Book has at most one QRCode row, every QRCode row belongs to a Book that
\* exists, and the Book a delete has just removed has no QRCode row left.
C1_OneArtifactPerBook ==
    /\ \A b \in DOMAIN books : Cardinality(QrOf(Cur, b)) <= 1
    /\ \A q \in DOMAIN qrcodes : qrcodes[q].book \in DOMAIN books
    /\ (resp.op = "destroy" /\ resp.status = 204) =>
           /\ resp.book \notin DOMAIN books
           /\ \A q \in DOMAIN qrcodes : qrcodes[q].book # resp.book

\* A Book whose image had been stored has just been deleted while another
\* Book keeps its one QRCode row.
C1_Witness ==
    /\ resp.op = "destroy" /\ resp.status = 204
    /\ <<resp.book, 0>> \in DOMAIN files
    /\ \E b \in DOMAIN books : Cardinality(QrOf(Cur, b)) = 1

\* C2: in every reachable state the image every QRCode row names is stored
\* and encodes exactly the characters "book:" followed by the decimal id of
\* the row's Book, whether generate_qr_code or regenerate_qrcode wrote it.
C2_PayloadNamesOwner ==
    \A q \in DOMAIN qrcodes :
        /\ qrcodes[q].qr_code # NoFile
        /\ qrcodes[q].qr_code \in DOMAIN files
        /\ files[qrcodes[q].qr_code].payload =
               <<"b", "o", "o", "k", ":">> \o Str(qrcodes[q].book)

\* A regeneration with a custom size has just replaced the image of one
\* Book, and a QRCode row with another id than its Book's carries an image
\* of the automatic generation.
C2_Witness ==
    /\ resp.op = "regenerate_qrcode" /\ resp.status = 200
    /\ \E q \in QrOf(Cur, resp.book) : files[qrcodes[q].qr_code].w = 20
    /\ \E q \in DOMAIN qrcodes :
           /\ q # qrcodes[q].book
           /\ files[qrcodes[q].qr_code].w = DEFAULT_SIDE

\* C3: (state part) the Book a create or an import has just created has a
\* QRCode row whose image is stored, complete and not empty; (step part) a
\* save of an existing Book, by an update or by the update path of an
\* import, creates exactly one QRCode row with a stored image when the Book
\* had none, and leaves the QRCode rows and the storage as they were when
\* the Book had one.
C3_ArtifactOnSave ==
    /\ [](resp.status = 201 /\ resp.op \in {"create", "import"} =>
            /\ resp.book \in DOMAIN books
            /\ \E q \in DOMAIN qrcodes :
                 /\ qrcodes[q].book = resp.book
                 /\ qrcodes[q].qr_code \in DOMAIN files
                 /\ files[qrcodes[q].qr_code].state = "ok"
                 /\ files[qrcodes[q].qr_code].w > 0
                 /\ files[qrcodes[q].qr_code].h > 0)
    /\ [][(resp'.status = 200 /\ resp'.op \in {"update", "import"}) =>
            IF \E q \in DOMAIN qrcodes : qrcodes[q].book = resp'.book
            THEN qrcodes' = qrcodes /\ qrNext' = qrNext /\ files' = files
            ELSE /\ qrNext' = qrNext + 1
                 /\ DOMAIN qrcodes' = DOMAIN qrcodes \cup {qrNext}
                 /\ qrcodes'[qrNext].book = resp'.book
                 /\ qrcodes'[qrNext].qr_code \in DOMAIN files' \ DOMAIN files
                 /\ files'[qrcodes'[qrNext].qr_code].state = "ok"]_vars

\* An update has just saved a Book whose QRCode row had been deleted: the
\* row it has now is a new one, with a second stored image.
C3_Witness ==
    /\ resp.op = "update" /\ resp.status = 200
    /\ QrOf(Cur, resp.book) = {qrNext - 1}
    /\ qrNext - 1 > Cardinality(DOMAIN files \cap {<<resp.book, 0>>})
    /\ qrcodes[qrNext - 1].qr_code = <<resp.book, 1>>

(***************************************************************************)
(* Properties of the import (specification SpecImport).                    *)
(***************************************************************************)
\* C4: an import of a record whose ISBN (isbn13 when it has one, else
\* isbn10) is the isbn of an existing Book answers 200 with created false
\* and that Book, which now carries the record's title and author and the
\* isbn it had; no Book is added or removed and every other Book is left as
\* it was, also when another Book has the title and the author of the record.
C4_IsbnMatchUpdates ==
    [][resp'.op = "import" =>
        LET rec == resp'.arg
            isbn == IF rec.isbn13 \notin {NULL, ""} THEN rec.isbn13
                    ELSE IF rec.isbn10 \notin {NULL, ""} THEN rec.isbn10 ELSE NULL
        IN  \A b \in DOMAIN books :
                (isbn # NULL /\ books[b].isbn = isbn) =>
                    /\ resp'.status = 200
                    /\ resp'.created = FALSE
                    /\ resp'.book = b
                    /\ DOMAIN books' = DOMAIN books
                    /\ books'[b].title = rec.title
                    /\ books'[b].author = AuthorStr(rec.authors)
                    /\ books'[b].isbn = isbn
                    /\ \A o \in DOMAIN books \ {b} : books'[o] = books[o]]_vars

\* An import has just updated the Book that holds the record's ISBN while a
\* Book created after it has the title and the author of the record.
C4_Witness ==
    /\ resp.op = "import" /\ resp.status = 200
    /\ resp.arg.isbn13 = "I1"
    /\ books[resp.book].isbn = "I1"
    /\ \E o \in DOMAIN books :
           /\ o > resp.book
           /\ books[o].title = resp.arg.title
           /\ books[o].author = AuthorStr(resp.arg.authors)
           /\ books[o].isbn # "I1"

\* C5 (as amended): for an import of a record whose ISBN no Book holds, let
\* the author of the record be its names joined by ", ", or "Unknown Author"
\* when it lists none.  When Books have the record's title and that author,
\* the one created last is updated: the answer is 200 with created false and
\* that Book, and the set of Books and every other Book are as before.  When
\* none has, exactly one Book is added, with the record's title and that
\* author, the answer is 201 with created true, and the Books there were are
\* as before.
C5_TitleAuthorMatchOrCreate ==
    [][resp'.op = "import" =>
        LET rec == resp'.arg
            isbn == IF rec.isbn13 \notin {NULL, ""} THEN rec.isbn13
                    ELSE IF rec.isbn10 \notin {NULL, ""} THEN rec.isbn10 ELSE NULL
            author == IF rec.authors = <<>> THEN "Unknown Author" ELSE Join(rec.authors)
            matches == {b \in DOMAIN books :
                          books[b].title = rec.title /\ books[b].author = author}
        IN  (isbn = NULL \/ \A b \in DOMAIN books : books[b].isbn # isbn) =>
                IF matches # {}
                THEN /\ resp'.status = 200
                     /\ resp'.created = FALSE
                     /\ resp'.book = Max(matches)
                     /\ DOMAIN books' = DOMAIN books
                     /\ \A o \in DOMAIN books \ {Max(matches)} : books'[o] = books[o]
                ELSE /\ resp'.status = 201
                     /\ resp'.created = TRUE
                     /\ resp'.book \notin DOMAIN books
                     /\ DOMAIN books' = DOMAIN books \cup {resp'.book}
                     /\ books'[resp'.book].title = rec.title
                     /\ books'[resp'.book].author = author
                     /\ \A o \in DOMAIN books : books'[o] = books[o]]_vars

\* An import of a record that lists no author and has no ISBN has just
\* updated the later of two Books with its title and the author
\* "Unknown Author".
C5_Witness ==
    /\ resp.op = "import" /\ resp.status = 200
    /\ resp.arg.authors = <<>>
    /\ resp.arg.isbn13 = NULL /\ resp.arg.isbn10 = NULL
    /\ books[resp.book].author = "Unknown Author"
    /\ \E o \in DOMAIN books :
           /\ o < resp.book
           /\ books[o].title = resp.arg.title
           /\ books[o].author = "Unknown Author"

\* C5 as stated: the author compared is the comma-joined author list of the
\* record, which for a record that lists no author is the empty string.
C5_AsStated ==
    [][resp'.op = "import" =>
        LET rec == resp'.arg
            isbn == IF rec.isbn13 \notin {NULL, ""} THEN rec.isbn13
                    ELSE IF rec.isbn10 \notin {NULL, ""} THEN rec.isbn10 ELSE NULL
            author == IF rec.authors = <<>> THEN "" ELSE Join(rec.authors)
            matches == {b \in DOMAIN books :
                          books[b].title = rec.title /\ books[b].author = author}
        IN  (isbn = NULL \/ \A b \in DOMAIN books : books[b].isbn # isbn) =>
                IF matches # {}
                THEN /\ resp'.status = 200
                     /\ resp'.created = FALSE
                     /\ resp'.book = Max(matches)
                     /\ DOMAIN books' = DOMAIN books
                ELSE /\ resp'.status = 201
                     /\ resp'.created = TRUE
                     /\ Cardinality(DOMAIN books') = Cardinality(DOMAIN books) + 1]_vars

\* C6: (state part) no two Books hold the same isbn other than NULL, and no
\* import answers with the error of a refused save; (step part) an import
\* that updates a Book changes its isbn only when the Book had none (NULL or
\* empty), and then to the record's ISBN, and an import that creates a Book
\* does so only when no Book holds the record's ISBN.
C6_IsbnUnique ==
    /\ [](\A b1, b2 \in DOMAIN books :
            (b1 # b2 /\ books[b1].isbn # NULL) => books[b1].isbn # books[b2].isbn)
    /\ [](resp.op = "import" => resp.status \in {200, 201})
    /\ [][resp'.op = "import" =>
            LET rec == resp'.arg
                isbn == IF rec.isbn13 \notin {NULL, ""} THEN rec.isbn13
                        ELSE IF rec.isbn10 \notin {NULL, ""} THEN rec.isbn10 ELSE NULL
            IN  /\ resp'.status = 200 =>
                       \/ books'[resp'.book].isbn = books[resp'.book].isbn
                       \/ /\ books[resp'.book].isbn \in {NULL, ""}
                          /\ books'[resp'.book].isbn = isbn
                /\ resp'.status = 201 =>
                       \/ isbn = NULL
                       \/ \A b \in DOMAIN books : books[b].isbn # isbn]_vars

\* An import has just updated, by title and author, a Book that keeps the
\* isbn it had, which is not the record's, while another Book holds one too.
C6_Witness ==
    /\ resp.op = "import" /\ resp.status = 200
    /\ resp.arg.isbn13 = "I1"
    /\ books[resp.book].isbn = "I2"
    /\ \E o \in DOMAIN books \ {resp.book} : books[o].isbn = ""

(***************************************************************************)
(* Properties of the scan (specification SpecScan).                        *)
(***************************************************************************)
\* C7: the answer to a scan of "book:" followed by digits is 200 with the
\* Book whose id the digits write when that Book exists, and 404 when it
\* does not; the answer to a payload that does not begin with "book:", or
\* whose suffix is empty or has a character that is not a digit, a sign or a
\* blank, is 400.
C7_ScanOutcomes ==
    resp.op = "scan_qrcode" =>
        LET posted == resp.arg
            prefixed == /\ Len(posted) >= 5
                        /\ SubSeq(posted, 1, 5) = <<"b", "o", "o", "k", ":">>
            suffix == SubSeq(posted, 6, Len(posted))
            blank == \A i \in 1..Len(posted) : posted[i] = " "
        IN  /\ (prefixed /\ suffix # <<>> /\ AllDigits(suffix)) =>
                   IF DigitsVal(suffix) \in DOMAIN books
                   THEN resp.status = 200 /\ resp.book = DigitsVal(suffix)
                   ELSE resp.status = 404
            /\ (~prefixed /\ (blank \/ posted[1] # " ")) => resp.status = 400
            /\ (prefixed /\ (suffix = <<>> \/ \E i \in 1..Len(suffix) :
                                suffix[i] \notin DigitChars \cup {"+", "-", " "})) =>
                   resp.status = 400

\* The payload of a Book that was deleted has just been scanned while
\* another Book exists: the answer is 404.
C7_Witness ==
    /\ resp.op = "scan_qrcode" /\ resp.status = 404
    /\ resp.arg = <<"b", "o", "o", "k", ":", "1">>
    /\ 2 \in DOMAIN books

(***************************************************************************)
(* Properties of the validation (specification SpecValidate).              *)
(***************************************************************************)
\* C8 (as amended): the result of validate_qr_code is one of true, false
\* and unknown.  It is unknown exactly when the instance names an image and
\* the decoder is not available, whatever the state of the stored image.
\* It is true exactly when the decoder is available, the stored image is
\* readable, a symbol is decoded and its payload is "book:" followed by the
\* id of the owning Book.  It is false in every other case: no image name,
\* or, with the decoder available, a stored image that is missing, damaged
\* or unreadable, no symbol found, or a payload that differs.
C8_TriState ==
    (resp.op = "validate_qr_code" \/ (resp.op = "qrcode_info" /\ resp.status = 200)) =>
        LET name == resp.arg
            readable == /\ name # NoFile
                        /\ name \in DOMAIN files
                        /\ files[name].state = "ok"
            decoded == IF readable THEN PyzbarDecode(files[name]) ELSE <<>>
        IN  /\ resp.valid \in {"true", "false", "unknown"}
            /\ resp.valid = "unknown" <=> (name # NoFile /\ ~pyzbar)
            /\ resp.valid = "true" <=>
                   /\ pyzbar
                   /\ readable
                   /\ decoded # <<>>
                   /\ decoded = <<"b", "o", "o", "k", ":">> \o Str(resp.book)

\* The image of a QRCode row is damaged and the decoder is not available:
\* the validation has just answered unknown.
C8_Witness ==
    /\ resp.op = "validate_qr_code"
    /\ ~pyzbar
    /\ resp.arg \in DOMAIN files
    /\ files[resp.arg].state = "truncated"
    /\ resp.valid = "unknown"

\* C8 as stated: unknown if and only if the decoder is not available, and
\* false for a missing or damaged stored image.
C8_AsStated ==
    (resp.op = "validate_qr_code" \/ (resp.op = "qrcode_info" /\ resp.status = 200)) =>
        /\ resp.valid = "unknown" <=> ~pyzbar
        /\ (resp.arg = NoFile \/ files[resp.arg].state \in {"truncated", "garbage", "removed"})
               => resp.valid = "false"

(***************************************************************************)
(* Properties of two concurrent regenerations (specification SpecRegen).   *)
(***************************************************************************)
\* C9: with two regenerate_qrcode requests on a Book that has its QRCode
\* row, whose lookups, file creations, file writes and row saves interleave
\* in any order: in every state the Book has exactly one QRCode row, no
\* request has failed, and the image the row names is stored and complete;
\* both requests eventually complete; and once both have completed, the row
\* names the file written by the request that saved its row last, a file of
\* its own that holds exactly the image that request rendered.
C9_ConcurrentRegenerate ==
    /\ [](/\ Cardinality(DOMAIN qrcodes) = 1
          /\ \A q \in DOMAIN qrcodes :
                /\ qrcodes[q].book = RegenBook
                /\ qrcodes[q].qr_code \in DOMAIN files
                /\ files[qrcodes[q].qr_code].state = "ok"
          /\ \A r \in Reqs : pc[r] # "error")
    /\ <>(\A r \in Reqs : pc[r] = "done")
    /\ []((\A r \in Reqs : pc[r] = "done") =>
            \E last \in Reqs :
                /\ \A r \in Reqs : req[r].order <= req[last].order
                /\ \A r \in Reqs \ {last} : req[r].name # req[last].name
                /\ \A q \in DOMAIN qrcodes : qrcodes[q].qr_code = req[last].name
                /\ files[req[last].name].state = "ok"
                /\ files[req[last].name].payload = <<"b", "o", "o", "k", ":">> \o Str(RegenBook)
                /\ files[req[last].name].w = req[last].params.size[1]
                /\ files[req[last].name].h = req[last].params.size[2]
                /\ files[req[last].name].level = ErrorLevel(req[last].params.error_correction))

\* Both requests have completed; request 1 created its file before request
\* 2 did and saved its row after, and the two asked for different sizes.
C9_Witness ==
    /\ \A r \in Reqs : pc[r] = "done"
    /\ req[1].order > req[2].order
    /\ req[1].name[2] < req[2].name[2]
    /\ req[1].params.size # req[2].params.size

(***************************************************************************)
(* Properties of the rendering (specification SpecRender).                 *)
(***************************************************************************)
\* C10: for every positive size (W, H), with or without the frame, for
\* every frame width from 0 up and every logo option, the image that
\* create_enhanced_qr_code and generate_qr_code return is W pixels wide and
\* H pixels high; a frame is pasted exactly when one is asked for, it is
\* pasted before the resize, and nothing is done to the image after it.
C10_SizeContract ==
    call.fn \in {"create_enhanced_qr_code", "generate_qr_code"} =>
        LET ops == call.result.ops
        IN  /\ <<call.result.w, call.result.h>> = call.size
            /\ \A i, j \in 1..Len(ops) :
                   (ops[i] = "border" /\ ops[j] = "resize") => i < j
            /\ \A i \in 1..Len(ops) : ops[i] = "resize" => i = Len(ops)
            /\ call.fn = "create_enhanced_qr_code" =>
                   (call.add_border <=> \E i \in 1..Len(ops) : ops[i] = "border")

\* A frame of 35 pixels and a size that is not square were asked for: the
\* image was made, framed and then resized.
C10_Witness ==
    /\ call.fn = "create_enhanced_qr_code"
    /\ call.add_border /\ call.border_size = 35
    /\ call.size = <<300, 200>>
    /\ call.result.ops = <<"make_image", "border", "resize">>

\* C11: when the logo file is absent, is not an image, has damaged data or
\* has a mode that cannot be pasted, add_logo_to_qr_code returns the QR
\* image it was given, unchanged, and generate_qr_code renders exactly the
\* image it renders when no logo is asked for; neither ends by raising.
C11_LogoFailureIgnored ==
    /\ (call.fn = "add_logo_to_qr_code"
          /\ call.logo_path \in {"absent", "corrupt", "truncated", "badmode"}) =>
           /\ call.result = call.image
           /\ call.result.ops # <<"raised">>
    /\ (call.fn = "generate_qr_code" /\ call.add_logo
          /\ call.logo_path \in {"absent", "corrupt", "truncated", "badmode"}) =>
           /\ call.result = GenerateImage(call.id, call.size, FALSE, NULL)
           /\ call.result.logo = FALSE
           /\ call.result.payload = <<"b", "o", "o", "k", ":">> \o Str(call.id)
           /\ <<call.result.w, call.result.h>> = call.size

\* generate_qr_code was asked for a logo whose data are damaged and has
\* returned an image of the requested size without a logo.
C11_Witness ==
    /\ call.fn = "generate_qr_code" /\ call.add_logo
    /\ call.logo_path = "truncated"
    /\ call.size = <<300, 200>>
    /\ call.result.logo = FALSE
    /\ call.result.ops = <<"make_image", "resize">>

(***************************************************************************)
(* Processing of stored images (specification SpecProcess): Books are      *)
(* created, their images regenerated, a stored file may be damaged, and    *)
(* process_qr_code_image is called on the rows.                            *)
(***************************************************************************)
ProcessFormats == {"png", "jpeg", "WEBP", "bmp", "Gif", ""}

ProcessSizes == {<<>>, <<100, 50>>}

\* call.stored keeps the stored file as it was when the call was made
CallProcess(q, resize, format) ==
    /\ q \in DOMAIN qrcodes
    /\ call' = [fn |-> "process_qr_code_image", q |-> q, resize |-> resize,
                format |-> format, stored |-> files[qrcodes[q].qr_code],
                n |-> IF call.fn = "process_qr_code_image" THEN 1 - call.n ELSE 0,
                result |-> process_qr_code_image(
                               Cur, [id |-> q, book |-> qrcodes[q].book,
                                     qr_code |-> qrcodes[q].qr_code],
                               resize, format)]
    /\ DOMAIN pc = {}
    /\ UNCHANGED <<books, nextId, qrcodes, qrNext, files, pyzbar, resp, pc, req>>

NextProcess ==
    \/ \E data \in ValidateInputs : Create(data)
    \/ \E id \in Ids, params \in ValidateParams : Regenerate(id, params)
    \/ \E name \in FileNames : DamageFile(name, "truncated")
    \/ \E q \in 1..MaxQr, resize \in ProcessSizes, format \in ProcessFormats :
          CallProcess(q, resize, format)
    \/ \E image \in LogoCanvases, format \in FormatNames :
          CallOptimize(image, format)

SpecProcess == Init /\ [][NextProcess]_vars

\* C12: (state part) optimize_qr_code_image, and process_qr_code_image on a
\* row whose stored image is readable, given a format name that in capitals
\* is none of PNG, JPEG and WEBP, return PNG bytes of the image and do not
\* raise; (step part) the same call made once more returns the same bytes.
C12_FormatFallback ==
    /\ []((call.fn = "optimize_qr_code_image"
             /\ call.format \notin {"PNG", "png", "Png", "JPEG", "jpeg", "Jpeg",
                                    "WEBP", "webp", "WebP"}) =>
            /\ call.result.format = "PNG"
            /\ call.result.state = "ok"
            /\ <<call.result.w, call.result.h>> = <<call.image.w, call.image.h>>
            /\ call.result.payload = call.image.payload)
    /\ []((call.fn = "process_qr_code_image"
             /\ call.format \notin {"PNG", "png", "Png", "JPEG", "jpeg", "Jpeg",
                                    "WEBP", "webp", "WebP"}
             /\ call.stored.state = "ok") =>
            /\ call.result.format = "PNG"
            /\ call.result.state = "ok"
            /\ call.result.payload = call.stored.payload
            /\ <<call.result.w, call.result.h>> =
                   IF call.resize # <<>> THEN call.resize
                   ELSE <<call.stored.w, call.stored.h>>)
    /\ [][(/\ call.fn \in {"optimize_qr_code_image", "process_qr_code_image"}
           /\ call'.fn = call.fn
           /\ [call' EXCEPT !.n = 0, !.result = 0] = [call EXCEPT !.n = 0, !.result = 0]
           /\ files' = files /\ qrcodes' = qrcodes)
            => call'.result = call.result]_vars

\* process_qr_code_image was given the format name "Gif" and a size for a
\* row whose image had been regenerated: it has returned PNG bytes of that
\* size, and so it had on the call before.
C12_Witness ==
    /\ call.fn = "process_qr_code_image"
    /\ call.format = "Gif" /\ call.resize = <<100, 50>>
    /\ call.n = 1
    /\ call.stored.w = 20
    /\ call.result.format = "PNG"
    /\ call.result.w = 100 /\ call.result.h = 50

(***************************************************************************)
(* The QR retrieval (specification SpecRetrieve): Books are created, their *)
(* images regenerated, a stored file may be damaged, and the image is      *)
(* asked for in every format and size.                                     *)
(***************************************************************************)
\* Query parameters: format as the client types it, size <<W, H>> for
\* "WxH", <<s>> for "s" and <<>> when absent, and quality
RetrieveParams ==
    {[format |-> "png", size |-> <<>>, quality |-> 95],
     [format |-> "png", size |-> <<300, 300>>, quality |-> 100],
     [format |-> "webp", size |-> <<300, 300>>, quality |-> 80],
     [format |-> "jpeg", size |-> <<100, 50>>, quality |-> 1],
     [format |-> "WebP", size |-> <<>>, quality |-> 95],
     [format |-> "jpeg", size |-> <<100>>, quality |-> 95],
     [format |-> "bmp", size |-> <<>>, quality |-> 95],
     [format |-> "jpg", size |-> <<100, 50>>, quality |-> 95]}

NextRetrieve ==
    \/ \E data \in ValidateInputs : Create(data)
    \/ \E id \in Ids, params \in ValidateParams : Regenerate(id, params)
    \/ \E name \in FileNames : DamageFile(name, "truncated")
    \/ \E id \in Ids, params \in RetrieveParams : Qrcode(id, params)

SpecRetrieve == Init /\ [][NextRetrieve]_vars

\* C13: every image response of the QR retrieval is labelled image/png,
\* image/jpeg or image/webp, and the label names the format the bytes of
\* the response are encoded in, also when the format asked for is not
\* recognized and the bytes are PNG.
C13_ContentTypeNamesEncoding ==
    (resp.op = "qrcode" /\ resp.image # NoImage) =>
        /\ resp.ctype \in {"image/png", "image/jpeg", "image/webp"}
        /\ resp.ctype = (CASE resp.image.format = "PNG" -> "image/png"
                           [] resp.image.format = "JPEG" -> "image/jpeg"
                           [] resp.image.format = "WEBP" -> "image/webp"
                           [] OTHER -> "")

\* The image was asked for in the format bmp: the response holds PNG bytes
\* and is labelled image/bmp.
C13_Witness ==
    /\ resp.op = "qrcode" /\ resp.status = 200
    /\ resp.arg.format = "bmp"
    /\ resp.image.format = "PNG"
    /\ resp.ctype = "image/bmp"

\* C14: for a Book whose stored image is readable, a retrieval with a size
\* W x H of positive numbers, a format among png, jpeg and webp and a
\* quality from 1 to 100 answers with an image, not with the JSON
\* description: its label is image/ followed by the format asked for, its
\* bytes are in that format, and it is W pixels wide and H pixels high.
C14_SizedRetrieval ==
    (/\ resp.op = "qrcode" /\ resp.status = 200
     /\ resp.arg.format \in {"png", "jpeg", "webp"}
     /\ Len(resp.arg.size) = 2
     /\ resp.arg.quality \in 1..100
     /\ \E q \in DOMAIN qrcodes :
           /\ qrcodes[q].book = resp.book
           /\ qrcodes[q].qr_code \in DOMAIN files
           /\ files[qrcodes[q].qr_code].state = "ok") =>
        /\ resp.image # NoImage
        /\ resp.ctype = "image/" \o resp.arg.format
        /\ resp.image.format = (CASE resp.arg.format = "png" -> "PNG"
                                  [] resp.arg.format = "jpeg" -> "JPEG"
                                  [] OTHER -> "WEBP")
        /\ <<resp.image.w, resp.image.h>> = resp.arg.size
        /\ resp.image.payload = <<"b", "o", "o", "k", ":">> \o Str(resp.book)

\* The image of a Book, regenerated at 20 x 10, has just been served as
\* WEBP at 300 x 300.
C14_Witness ==
    /\ resp.op = "qrcode" /\ resp.status = 200
    /\ resp.arg.format = "webp" /\ resp.arg.size = <<300, 300>>
    /\ resp.ctype = "image/webp"
    /\ resp.image.w = 300 /\ resp.image.h = 300
    /\ \E q \in DOMAIN qrcodes :
           qrcodes[q].book = resp.book /\ files[qrcodes[q].qr_code].w = 20

(***************************************************************************)
(* The bibliographic API (specification SpecGoogle): a request to one of  *)
(* the four HTTP paths calls search_books or get_book_by_id, the function  *)
(* sends its request, the upstream answers or fails, the function returns  *)
(* its result and the handler answers the client.  call holds the function *)
(* call in progress.                                                       *)
(***************************************************************************)
API_TIMEOUT == 10

\* Volumes as the upstream serves them (title NULL: no title key)
Volumes ==
    {[id |-> "v1", title |-> "T1", authors |-> <<"A", "B">>,
      industryIdentifiers |-> <<[type |-> "ISBN_10", identifier |-> "I2"],
                                [type |-> "ISBN_13", identifier |-> "I1"]>>,
      publishedDate |-> <<"2", "0", "2", "0">>, description |-> "D1"],
     [id |-> "v2", title |-> NULL, authors |-> <<>>,
      industryIdentifiers |-> <<[type |-> "OTHER", identifier |-> "X1"]>>,
      publishedDate |-> <<>>, description |-> NULL]}

\* The identifier of the last entry of the given type, or None
RECURSIVE ExtractIsbn(_, _)
ExtractIsbn(identifiers, type) ==
    IF identifiers = <<>> THEN NULL
    ELSE IF identifiers[Len(identifiers)].type = type
    THEN identifiers[Len(identifiers)].identifier
    ELSE ExtractIsbn(SubSeq(identifiers, 1, Len(identifiers) - 1), type)

\* The book dictionary both functions build from a volume
NormalizedBook(volume) ==
    [title |-> IF volume.title = NULL THEN "N/A" ELSE volume.title,
     authors |-> volume.authors,
     isbn13 |-> ExtractIsbn(volume.industryIdentifiers, "ISBN_13"),
     isbn10 |-> ExtractIsbn(volume.industryIdentifiers, "ISBN_10"),
     description |-> volume.description,
     publishedDate |-> volume.publishedDate]

\* What becomes of requests.get, raise_for_status and response.json
Outcome(kind, status, items) == [kind |-> kind, status |-> status, items |-> items]

NoOutcome == Outcome("none", 0, <<>>)

Failures ==
    {Outcome("timeout", 0, <<>>), Outcome("connection", 0, <<>>),
     Outcome("http", 404, <<>>), Outcome("http", 500, <<>>),
     Outcome("json", 200, <<>>)}

\* The upstream returns at most maxResults items
SearchOutcomes(max_results) ==
    Failures \cup
    {Outcome("ok", 200, items) :
        items \in {<<>>} \cup {<<v>> : v \in Volumes}
                  \cup {<<v, w>> : v \in IF max_results >= 2 THEN Volumes ELSE {},
                                   w \in Volumes}}

VolumeOutcomes == Failures \cup {Outcome("ok", 200, <<v>>) : v \in Volumes}

NoResult == [success |-> FALSE, books |-> <<>>, error |-> ""]

TIMED_OUT == "Request to Google Books API timed out"
ERROR_CONNECTING == "Error connecting to Google Books API: "
BOOK_NOT_FOUND == "Book not found"

\* search_books from the answer on: the try body and its except clauses
\* (a body that is not JSON raises requests' JSONDecodeError, a
\* RequestException)
SearchBooksResult(outcome) ==
    CASE outcome.kind = "ok" ->
            [success |-> TRUE,
             books |-> [i \in 1..Len(outcome.items) |-> NormalizedBook(outcome.items[i])],
             error |-> ""]
      [] outcome.kind = "timeout" -> [NoResult EXCEPT !.error = TIMED_OUT]
      [] OTHER -> [NoResult EXCEPT !.error = ERROR_CONNECTING]

\* get_book_by_id from the answer on; books holds the one book
GetBookByIdResult(outcome) ==
    CASE outcome.kind = "ok" ->
            [success |-> TRUE, books |-> <<NormalizedBook(outcome.items[1])>>,
             error |-> ""]
      [] outcome.kind = "timeout" -> [NoResult EXCEPT !.error = TIMED_OUT]
      [] outcome.kind = "http" /\ outcome.status = 404 ->
            [NoResult EXCEPT !.error = BOOK_NOT_FOUND]
      [] OTHER -> [NoResult EXCEPT !.error = ERROR_CONNECTING]

\* 'not found' in error.lower(), on the messages the two functions build
NotFoundIn(error) == error = BOOK_NOT_FOUND

NoApiCall ==
    [fn |-> "none", stage |-> "done", input |-> <<>>, max_results |-> 0,
     requests |-> 0, timeout |-> 0, outcome |-> NoOutcome, result |-> NoResult]

\* A function that sends its request once more after a timeout.
ReturnOrRetry(c) ==
    IF c.outcome.kind = "timeout" /\ c.requests < 3
    THEN [c EXCEPT !.stage = "try", !.outcome = NoOutcome]
    ELSE [c EXCEPT !.stage = "returned",
                   !.result = IF c.fn = "search_books"
                              THEN SearchBooksResult(c.outcome)
                              ELSE GetBookByIdResult(c.outcome)]

\* From the answer to the return of the function: none of the except
\* clauses sends anything, each returns a dictionary
ReturnResult(c) ==
    [c EXCEPT !.stage = "returned",
              !.result = IF c.fn = "search_books"
                         THEN SearchBooksResult(c.outcome)
                         ELSE GetBookByIdResult(c.outcome)]

\* import_from_google_books with a query: the status of the refusal, 0 when
\* the book at the index is imported
ImportQueryStatus(result, index) ==
    IF ~result.success \/ result.books = <<>> THEN 404
    ELSE IF index >= Len(result.books) THEN 400
    ELSE 0

\* google_book_detail and import_from_google_books with an id: the status
\* of the refusal, 0 when the book is saved
ByIdStatus(result) ==
    IF ~result.success
    THEN IF NotFoundIn(result.error) THEN 404 ELSE 500
    ELSE 0

\* What a client sends to the four paths ("" and NULL: parameter left out)
GoogleInputs ==
    [op : {"search_google_books"}, id : {NULL}, query : {"", "q"}, index : {0}]
    \cup [op : {"google_book_detail"}, id : {"", "v1"}, query : {NULL}, index : {0}]
    \cup [op : {"import_from_google_books"}, id : {NULL, "v1"},
          query : {NULL, "q"}, index : {0, 1}]

\* The function the handler calls for the input, "none" for a 400
CalledFunction(input) ==
    CASE input.op = "search_google_books" ->
            IF Truthy(input.query) THEN "search_books" ELSE "none"
      [] input.op = "google_book_detail" ->
            IF Truthy(input.id) THEN "get_book_by_id" ELSE "none"
      [] OTHER ->
            IF Truthy(input.id) THEN "get_book_by_id"
            ELSE IF Truthy(input.query) THEN "search_books" ELSE "none"

\* A request arrives: the handler reads its parameters and calls the function
GoogleReceive(input) ==
    /\ call.stage = "done"
    /\ \E fn \in {CalledFunction(input)} :
          IF fn = "none"
          THEN /\ resp' = [Resp(input.op, 400, 0) EXCEPT
                              !.arg = [input |-> input, outcome |-> NoOutcome]]
               /\ call' = NoApiCall
          ELSE /\ resp' = NoResp
               /\ call' = [NoApiCall EXCEPT
                              !.fn = fn, !.stage = "try", !.input = input,
                              !.max_results =
                                  IF input.op = "import_from_google_books"
                                  THEN input.index + 1 ELSE 10]
    /\ SameState
    /\ UNCHANGED <<pc, req, pyzbar>>

\* requests.get(base_url, params=params, timeout=10)
RequestsGet ==
    /\ call.stage = "try"
    /\ call' = [call EXCEPT !.stage = "wait", !.requests = @ + 1,
                            !.timeout = API_TIMEOUT]
    /\ SameState
    /\ UNCHANGED <<pc, req, pyzbar, resp>>

\* The upstream answers, or the request fails
UpstreamAnswers(outcome) ==
    /\ call.stage = "wait"
    /\ outcome \in (IF call.fn = "search_books"
                    THEN SearchOutcomes(call.max_results) ELSE VolumeOutcomes)
    /\ call' = [call EXCEPT !.stage = "answered", !.outcome = outcome]
    /\ SameState
    /\ UNCHANGED <<pc, req, pyzbar, resp>>

\* The function handles the answer and returns
ApiReturn ==
    /\ call.stage = "answered"
    /\ call' = ReturnResult(call)
    /\ SameState
    /\ UNCHANGED <<pc, req, pyzbar, resp>>

\* The handler answers the client from the result of the function
GoogleRespond ==
    /\ call.stage = "returned"
    /\ call' = [call EXCEPT !.stage = "done"]
    /\ LET input == call.input
           result == call.result
           arg == [input |-> input, outcome |-> call.outcome]
           refusal == IF input.op = "search_google_books"
                      THEN (IF result.success THEN 0 ELSE 500)
                      ELSE IF call.fn = "get_book_by_id" THEN ByIdStatus(result)
                      ELSE ImportQueryStatus(result, input.index)
       IN  IF refusal # 0
           THEN /\ resp' = [Resp(input.op, refusal, 0) EXCEPT !.arg = arg]
                /\ SameState
           ELSE IF input.op = "search_google_books"
           THEN /\ resp' = [Resp(input.op, 200, 0) EXCEPT !.arg = arg]
                /\ SameState
           ELSE \E book_data \in {IF call.fn = "get_book_by_id" THEN result.books[1]
                                  ELSE result.books[input.index + 1]} :
                \E r \in {save_google_book_to_database(Cur, book_data)} :
                   /\ Bounded(r.st)
                   /\ Commit(r.st)
                   /\ resp' = IF r.err
                              THEN [Resp(input.op, 500, 0) EXCEPT !.arg = arg]
                              ELSE [Resp(input.op,
                                         IF r.created /\ input.op = "import_from_google_books"
                                         THEN 201 ELSE 200, r.book)
                                       EXCEPT !.created = r.created, !.arg = arg]
    /\ UNCHANGED <<pc, req, pyzbar>>

InitGoogle ==
    /\ books = [b \in {} |-> 0]
    /\ nextId = 1
    /\ qrcodes = [q \in {} |-> 0]
    /\ qrNext = 1
    /\ files = [f \in {} |-> 0]
    /\ pyzbar = TRUE
    /\ resp = NoResp
    /\ pc = [r \in {} |-> 0]
    /\ req = [r \in {} |-> 0]
    /\ call = NoApiCall

NextGoogle ==
    \/ \E input \in GoogleInputs : GoogleReceive(input)
    \/ RequestsGet
    \/ \E outcome \in SearchOutcomes(2) \cup VolumeOutcomes : UpstreamAnswers(outcome)
    \/ ApiReturn
    \/ GoogleRespond

\* The function and the handler run on once they are called; nothing is
\* assumed of the upstream
SpecGoogle ==
    InitGoogle /\ [][NextGoogle]_vars /\ WF_vars(RequestsGet) /\ WF_vars(ApiReturn)

\* C15: a call of search_books or get_book_by_id sends at most one request
\* to the bibliographic API, with a timeout of 10 seconds; when the request
\* times out or the connection fails, the call sends nothing more, and it
\* returns a result with success = false and an error message.
C15_OneRequestThenFailure ==
    /\ [](call.requests <= 1)
    /\ [](call.requests = 1 => call.timeout = API_TIMEOUT)
    /\ [][call.stage = "answered" =>
             (call'.requests = call.requests /\ call'.stage = "returned")]_vars
    /\ []((call.stage \in {"returned", "done"}
           /\ call.outcome.kind \in {"timeout", "connection"}) =>
             (~call.result.success /\ call.result.error # ""
              /\ call.result.books = <<>>))
    /\ ((call.stage = "answered" /\ call.outcome.kind \in {"timeout", "connection"})
          ~> (call.stage = "returned" /\ ~call.result.success))

\* get_book_by_id has returned its failure after a timeout of its one request.
C15_Witness ==
    /\ call.fn = "get_book_by_id" /\ call.stage = "returned"
    /\ call.outcome.kind = "timeout"
    /\ call.requests = 1
    /\ call.result = [NoResult EXCEPT !.error = TIMED_OUT]

\* C16: on the four HTTP paths that call the bibliographic API, a timeout
\* or a connection failure of the upstream is answered with a status other
\* than 404, and 404 is answered only when the upstream reported that the
\* record does not exist (its own 404) or that the search found nothing.
C16_NotFoundOnlyWhenAbsent ==
    (resp.op \in {"search_google_books", "google_book_detail",
                  "import_from_google_books"}) =>
        /\ resp.arg.outcome.kind \in {"timeout", "connection"} => resp.status # 404
        /\ resp.status = 404 =>
              \/ resp.arg.outcome.kind = "http" /\ resp.arg.outcome.status = 404
              \/ resp.arg.outcome.kind = "ok" /\ resp.arg.outcome.items = <<>>

\* An import by query whose search timed out has been answered 404.
C16_Witness ==
    /\ resp.op = "import_from_google_books" /\ resp.status = 404
    /\ resp.arg.input.query = "q" /\ resp.arg.input.id = NULL
    /\ resp.arg.outcome.kind = "timeout"

(***************************************************************************)
(* The import date parser (specification SpecDates): the parser is applied *)
(* to date strings of every length from 0 to 12, well formed and not, and  *)
(* records carrying such strings are imported.                             *)
(***************************************************************************)
YearStrings == {<<"2", "0", "2", "0">>, <<"1", "9", "0", "0">>,
                <<"0", "0", "0", "0">>}

MonthStrings == {<<"0", "0">>, <<"0", "2">>, <<"1", "2">>, <<"1", "3">>,
                 <<" ", "2">>}

DayStrings == {<<"0", "0">>, <<"2", "9">>, <<"3", "1">>, <<"3", "2">>,
               <<" ", "7">>}

Suffixes == {<<"T", "0">>}

\* Strings that have no hyphen or no digit where the formats want one
Misshapen ==
    {<<"2", "0", "x", "0">>, <<"2", "0", "2", "0", "/", "0", "2">>,
     <<"2", "0", "2", "0", "-", "0", "2", "/", "2", "9">>,
     <<"2", "0", "2", "0", "-", "2", "-", "2", "9", "T">>,
     <<"2", "0", "2", "0", "-", "0", "2", "-", "2", "x">>}

\* Every string cut to every length
Prefixes(S) == UNION {{SubSeq(s, 1, n) : n \in 0..Len(s)} : s \in S}

DateStrings ==
    Misshapen \cup
    Prefixes({y \o <<"-">> \o m \o <<"-">> \o d \o x :
                 y \in YearStrings, m \in MonthStrings,
                 d \in DayStrings, x \in Suffixes})

\* The date strings of the imported records
ImportedDates ==
    {<<>>, <<"2", "0", "2", "0">>, <<"2", "0", "2", "0", "-", "0", "2">>,
     <<"2", "0", "2", "0", "-", "0", "2", "-", "2", "9", "T">>,
     <<"1", "9", "0", "0", "-", "0", "2", "-", "2", "9">>,
     <<"2", "0", "2", "0", "-", "0", "2", "-">>}

DatedRecords ==
    [title : {"T1"}, authors : {<<"A", "B">>}, isbn13 : {NULL}, isbn10 : {NULL},
     description : {NULL}, publishedDate : ImportedDates]

\* the date parsing of save_google_book_to_database on date_str
CallParse(date_str) ==
    /\ call' = [fn |-> "parse", date_str |-> date_str,
                result |-> ParsePublishedDate(date_str)]
    /\ SameState
    /\ UNCHANGED <<pc, req, pyzbar, resp>>

InitDates ==
    /\ books = [b \in {} |-> 0]
    /\ nextId = 1
    /\ qrcodes = [q \in {} |-> 0]
    /\ qrNext = 1
    /\ files = [f \in {} |-> 0]
    /\ pyzbar = TRUE
    /\ resp = NoResp
    /\ pc = [r \in {} |-> 0]
    /\ req = [r \in {} |-> 0]
    /\ call = [fn |-> "none", date_str |-> <<>>, result |-> NoDate]

NextDates ==
    \/ \E date_str \in DateStrings : CallParse(date_str)
    \/ \E book_data \in DatedRecords : Import(book_data)

SpecDates == InitDates /\ [][NextDates]_vars

\* The number written by the two characters from position i
TwoDigits(s, i) == 10 * DigitVal(s[i]) + DigitVal(s[i + 1])

\* The first four characters are a year from 0001 to 9999
HasYear(s) ==
    /\ Len(s) >= 4
    /\ \A i \in 1..4 : s[i] \in DigitChars
    /\ 100 * TwoDigits(s, 1) + TwoDigits(s, 3) >= 1

\* The characters 5 to 7 are a hyphen and a month from 01 to 12
HasMonth(s) ==
    /\ Len(s) >= 7 /\ s[5] = "-"
    /\ s[6] \in DigitChars /\ s[7] \in DigitChars
    /\ TwoDigits(s, 6) \in 1..12

\* The characters 8 to 10 are a hyphen and a day of that month
HasDay(s) ==
    /\ Len(s) >= 10 /\ s[8] = "-"
    /\ s[9] \in DigitChars /\ s[10] \in DigitChars
    /\ TwoDigits(s, 9) >= 1
    /\ TwoDigits(s, 9) <=
          (CASE TwoDigits(s, 6) \in {4, 6, 9, 11} -> 30
             [] TwoDigits(s, 6) = 2 ->
                   (IF LET y == 100 * TwoDigits(s, 1) + TwoDigits(s, 3)
                       IN  (y % 4 = 0 /\ y % 100 # 0) \/ y % 400 = 0
                    THEN 29 ELSE 28)
             [] OTHER -> 31)

\* C17: the import date parser goes by the length of the string: four
\* characters YYYY give January 1 of the year, seven characters YYYY-MM
\* the 1st of the month, ten or more characters the date YYYY-MM-DD of the
\* first ten; every other length gives no date, a date is given only for a
\* string of one of these shapes, and the import of a record whatever its
\* date string is answered 200 or 201 with the parsed date stored, the
\* stored date being kept when there is none.
C17_DateByLength ==
    /\ [](call.fn = "parse" =>
            LET s == call.date_str
                d == call.result
                year == 100 * TwoDigits(s, 1) + TwoDigits(s, 3)
            IN  /\ (Len(s) = 4 /\ HasYear(s)) => d = <<year, 1, 1>>
                /\ (Len(s) = 7 /\ HasYear(s) /\ HasMonth(s)) =>
                       d = <<year, TwoDigits(s, 6), 1>>
                /\ (Len(s) >= 10 /\ HasYear(s) /\ HasMonth(s) /\ HasDay(s)) =>
                       d = <<year, TwoDigits(s, 6), TwoDigits(s, 9)>>
                /\ (Len(s) \notin {4, 7} /\ Len(s) < 10) => d = NoDate
                /\ d # NoDate =>
                       /\ HasYear(s) /\ d[1] = year
                       /\ Len(s) = 4 => (d[2] = 1 /\ d[3] = 1)
                       /\ Len(s) = 7 => (HasMonth(s) /\ d[2] = TwoDigits(s, 6) /\ d[3] = 1)
                       /\ Len(s) >= 10 =>
                            /\ HasMonth(s) /\ d[2] = TwoDigits(s, 6)
                            /\ HasDay(s) \/ (s[8] = "-" /\ s[9] = " ")
                            /\ HasDay(s) => d[3] = TwoDigits(s, 9))
    /\ [][call' = call =>
            /\ resp'.op = "import" /\ resp'.status \in {200, 201}
            /\ resp'.book \in DOMAIN books'
            /\ books'[resp'.book].publication_date =
                  (LET s == resp'.arg.publishedDate
                       year == 100 * TwoDigits(s, 1) + TwoDigits(s, 3)
                   IN  IF Len(s) = 4 /\ HasYear(s) THEN <<year, 1, 1>>
                       ELSE IF Len(s) = 7 /\ HasYear(s) /\ HasMonth(s)
                       THEN <<year, TwoDigits(s, 6), 1>>
                       ELSE IF Len(s) >= 10 /\ HasYear(s) /\ HasMonth(s) /\ HasDay(s)
                       THEN <<year, TwoDigits(s, 6), TwoDigits(s, 9)>>
                       ELSE IF resp'.created THEN NoDate
                       ELSE books[resp'.book].publication_date)]_vars

\* The parser has read a date and time string of 12 characters as the date
\* of its first ten, and a Book imported with a full date keeps it.
C17_Witness ==
    /\ call.fn = "parse" /\ Len(call.date_str) = 12
    /\ call.result = <<2020, 2, 29>>
    /\ resp.op = "import" /\ resp.status = 200
    /\ Len(resp.arg.publishedDate) = 8
    /\ books[resp.book].publication_date = <<2020, 2, 29>>

\* C18: a regenerate_qrcode request on a Book that succeeds replaces the
\* stored image of that Book's artifact and nothing else: the new image
\* holds "book:" and the id of the Book, no field of any Book changes, no
\* row of another Book is added, removed or changed and no image of another
\* artifact changes, and the Book's own row stays the one row it had, with
\* only the image name changed; a Book without a row gets exactly one.
C18_RegenerateFrame ==
    [][(resp'.op = "regenerate_qrcode" /\ resp'.status = 200) =>
          LET b == resp'.book
              others == {q \in DOMAIN qrcodes : qrcodes[q].book # b}
              own == {q \in DOMAIN qrcodes : qrcodes[q].book = b}
              own2 == {q \in DOMAIN qrcodes' : qrcodes'[q].book = b}
          IN  /\ books' = books /\ b \in DOMAIN books
              /\ nextId' = nextId
              /\ Cardinality(own2) = 1
              /\ own # {} => (own2 = own /\ DOMAIN qrcodes' = DOMAIN qrcodes)
              /\ own = {} => DOMAIN qrcodes' = DOMAIN qrcodes \cup own2
              /\ \A q \in own2 :
                    /\ qrcodes'[q].qr_code \in DOMAIN files'
                    /\ qrcodes'[q].qr_code \notin DOMAIN files
                    /\ files'[qrcodes'[q].qr_code].payload =
                          <<"b", "o", "o", "k", ":">> \o Str(b)
                    /\ files'[qrcodes'[q].qr_code].state = "ok"
              /\ \A q \in others :
                    /\ q \in DOMAIN qrcodes' /\ qrcodes'[q] = qrcodes[q]
                    /\ qrcodes[q].qr_code \in DOMAIN files =>
                          (/\ qrcodes[q].qr_code \in DOMAIN files'
                           /\ files'[qrcodes[q].qr_code] = files[qrcodes[q].qr_code])
      ]_vars

\* Two Books have their artifacts; the image of Book 2 has just been
\* regenerated at 330 x 330 and the image of Book 1 is the one it had.
C18_Witness ==
    /\ resp.op = "regenerate_qrcode" /\ resp.status = 200 /\ resp.book = 2
    /\ DOMAIN books = {1, 2}
    /\ \E q1, q2 \in DOMAIN qrcodes :
          /\ qrcodes[q1].book = 1 /\ qrcodes[q2].book = 2
          /\ files[qrcodes[q1].qr_code].w = DEFAULT_SIDE
          /\ files[qrcodes[q1].qr_code].payload = <<"b", "o", "o", "k", ":", "1">>
          /\ files[qrcodes[q2].qr_code].w = 330
          /\ files[qrcodes[q2].qr_code].payload = <<"b", "o", "o", "k", ":", "2">>

(***************************************************************************)
(* The resize helper (specification SpecResize): resize_qr_code_image is   *)
(* called on images of several proportions with single dimensions and      *)
(* boxes, with and without aspect preservation.                            *)
(***************************************************************************)
ImageSizes ==
    {<<500, 500>>, <<330, 330>>, <<20, 10>>, <<100, 50>>, <<50, 100>>,
     <<250, 30>>, <<700, 500>>, <<49, 70>>, <<300, 400>>, <<1, 3>>}

TargetSizes ==
    {<<s>> : s \in {1, 100, 250, 500, 700}}
    \cup {<<W, H>> : W \in {1, 100, 300, 500, 980}, H \in {100, 300, 700}}

\* resize_qr_code_image(image, size, maintain_aspect) is called: the size
\* asked of Image.resize, which raises ValueError for a side of 0
CallResize ==
    /\ call.fn = "none"
    /\ \E target \in {TargetSize(call.image[1], call.image[2], call.size,
                                  call.maintain_aspect)} :
          call' = [call EXCEPT !.fn = "resize_qr_code_image", !.target = target,
                               !.raised = target[1] <= 0 \/ target[2] <= 0]
    /\ SameState
    /\ UNCHANGED <<pc, req, pyzbar, resp>>

\* An image and the arguments of the call
InitResize ==
    /\ books = [b \in {} |-> 0]
    /\ nextId = 1
    /\ qrcodes = [q \in {} |-> 0]
    /\ qrNext = 1
    /\ files = [f \in {} |-> 0]
    /\ pyzbar = TRUE
    /\ resp = NoResp
    /\ pc = [r \in {} |-> 0]
    /\ req = [r \in {} |-> 0]
    /\ call \in [fn : {"none"}, image : ImageSizes, size : TargetSizes,
                  maintain_aspect : BOOLEAN, target : {<<0, 0>>}, raised : {FALSE}]

NextResize == CallResize

SpecResize == InitResize /\ [][NextResize]_vars

\* C19: for an image of positive size (w, h), resize_qr_code_image with a
\* box (W, H) and aspect preservation yields (W, floor(W*h/w)) with the
\* height at most H when w/h > W/H and (floor(H*w/h), H) with the width at
\* most W otherwise; with one dimension s the longer side of the result is
\* s and the other side is at most s; without aspect preservation the
\* result is (W, H).
C19_AspectFit ==
    call.fn = "resize_qr_code_image" =>
        LET w == call.image[1]
            h == call.image[2]
            got == call.target
        IN  /\ ~call.raised
            /\ (Len(call.size) = 2 /\ call.maintain_aspect) =>
                  LET W == call.size[1]
                      H == call.size[2]
                  IN  IF w * H > W * h
                      THEN got = <<W, (W * h) \div w>> /\ got[2] <= H
                      ELSE got = <<(H * w) \div h, H>> /\ got[1] <= W
            /\ Len(call.size) = 1 =>
                  /\ Max({got[1], got[2]}) = call.size[1]
                  /\ Min({got[1], got[2]}) <= call.size[1]
            /\ (Len(call.size) = 2 /\ ~call.maintain_aspect) => got = call.size

\* An image of 700 x 500 has been fitted into the box 980 x 700, of the
\* same proportions, and came out 979 wide.
C19_Witness ==
    /\ call.fn = "resize_qr_code_image"
    /\ call.image = <<700, 500>> /\ call.size = <<980, 700>>
    /\ call.maintain_aspect
    /\ call.target = <<979, 700>>

(***************************************************************************)
(* The round trip of the payload (specification SpecRoundTrip).  A Book is *)
(* created in an empty catalogue whose id sequence stands anywhere;       *)
(* Book.save creates its QRCode, whose save generates the image with the   *)
(* default arguments; the stored image, which nothing disturbs, is then    *)
(* validated.                                                              *)
(***************************************************************************)
\* The next value of the id sequence: the small ids, and the first and last
\* ids of the digit counts at which the symbol changes its version
BookIds ==
    (1..40) \cup {99, 100, 999, 1000, 99999, 100000, 9999999, 10000000,
                  999999999, 1000000000, 2147483646}

\* BookViewSet.create on the empty catalogue
CreateFirst(data) ==
    /\ DOMAIN books = {}
    /\ IF Truthy(data.isbn) /\ IsbnTaken(Cur, data.isbn, {})
       THEN /\ resp' = Resp("create", 400, 0)
            /\ SameState
       ELSE \E r \in {BookCreate(Cur, data)} :
                /\ Commit(r.st)
                /\ resp' = IF r.err THEN Resp("create", 500, 0)
                           ELSE [Resp("create", 201, r.id) EXCEPT !.created = TRUE]
    /\ Idle

InitRoundTrip ==
    /\ books = [b \in {} |-> 0]
    /\ nextId \in BookIds
    /\ qrcodes = [q \in {} |-> 0]
    /\ qrNext = 1
    /\ files = [f \in {} |-> 0]
    /\ pyzbar \in BOOLEAN
    /\ resp = NoResp
    /\ pc = [r \in {} |-> 0]
    /\ req = [r \in {} |-> 0]
    /\ call = NoCall

NextRoundTrip ==
    \/ \E data \in ValidateInputs : CreateFirst(data)
    \/ \E q \in 1..MaxQr : Validate(q)
    \/ \E id \in BookIds : QrcodeInfo(id)

SpecRoundTrip == InitRoundTrip /\ [][NextRoundTrip]_vars

ImportAfter(book_data) ==
    /\ \E r \in {save_google_book_to_database(Cur, book_data)} :
           /\ Bounded(r.st)
           /\ Commit(r.st)
           /\ resp' = IF r.err THEN [Resp("import", 500, 0) EXCEPT !.arg = book_data]
                      ELSE [Resp("import", IF r.created THEN 201 ELSE 200, r.book)
                               EXCEPT !.created = r.created, !.arg = book_data]
    /\ \E again \in {resp.op = "import" /\ resp.arg = book_data} :
           call' = [fn |-> "import", again |-> again,
                    status |-> IF again THEN resp.status ELSE 0,
                    book |-> IF again THEN resp.book ELSE 0]
    /\ DOMAIN pc = {}
    /\ UNCHANGED <<pc, req, pyzbar>>

\* What a client posts to create a Book, and the records imported
ReimportInputs ==
    [title : {"T1"}, author : {"A, B", "Unknown Author"}, isbn : {NULL, "I1"},
     description : {NULL}, publication_date : {NoDate}]

ReimportRecords ==
    [title : {"T1"}, authors : {<<>>, <<"A", "B">>}, isbn13 : {NULL, "I1"},
     isbn10 : {NULL}, description : {NULL, "D1"}, publishedDate : {<<>>}]

NextReimport ==
    \/ \E data \in ReimportInputs : Create(data)
    \/ \E id \in Ids : Destroy(id)
    \/ \E q \in 1..MaxQr : AdminDeleteQRCode(q)
    \/ \E book_data \in ReimportRecords : ImportAfter(book_data)

SpecReimport == Init /\ [][NextReimport]_vars

MergeInputs ==
    [title : {"T1"}, author : {"A, B"}, isbn : {NULL, "", "I1"},
     description : {NULL}, publication_date : {NoDate}]

\* A full record; a record that matches by ISBN under another title and
\* without authors, description or date; a record with another ISBN, an
\* empty description and a date that does not parse; a record without ISBN
MergeRecords ==
    {[title |-> "T1", authors |-> <<"A", "B">>, isbn13 |-> "I1", isbn10 |-> NULL,
      description |-> "D1", publishedDate |-> <<"2", "0", "2", "0">>],
     [title |-> "T2", authors |-> <<>>, isbn13 |-> "I1", isbn10 |-> NULL,
      description |-> NULL, publishedDate |-> <<>>],
     [title |-> "T1", authors |-> <<"A", "B">>, isbn13 |-> NULL, isbn10 |-> "I2",
      description |-> "", publishedDate |-> <<"2", "0", "2", "1", "-", "1", "3">>],
     [title |-> "T2", authors |-> <<>>, isbn13 |-> NULL, isbn10 |-> NULL,
      description |-> "D2", publishedDate |-> <<"2", "0", "1", "9", "-", "0", "5">>]}

NextMerge ==
    \/ \E data \in MergeInputs : Create(data)
    \/ \E q \in 1..MaxQr : AdminDeleteQRCode(q)
    \/ \E book_data \in MergeRecords : Import(book_data)

SpecMerge == Init /\ [][NextMerge]_vars

\* C23 (as amended): an import that updates a Book (created = false) sets
\* its title to the record's and its author to the record's names joined by
\* ", " ("Unknown Author" when it lists none); sets its description to the
\* record's when that is not empty and keeps it otherwise; sets its
\* publication_date to the record's date when that parsed and keeps it
\* otherwise; sets its isbn to the record's ISBN when the Book had none
\* (NULL or empty) and the record has one, and keeps it otherwise.  The id
\* of the Book, the set of Books and every other Book are as before.  When
\* the Book has its artifact, the QRCode rows and the stored files are as
\* before; when it has none, the save creates it: one row and one file,
\* holding "book:" and the id, are added, and the other rows and files are
\* as before.
C23_UpdatePath ==
    [][(resp'.op = "import" /\ resp'.status = 200) =>
        LET rec == resp'.arg
            b == resp'.book
            isbn == IF rec.isbn13 \notin {NULL, ""} THEN rec.isbn13
                    ELSE IF rec.isbn10 \notin {NULL, ""} THEN rec.isbn10 ELSE NULL
            date == ParsePublishedDate(rec.publishedDate)
        IN  /\ resp'.created = FALSE
            /\ b \in DOMAIN books
            /\ DOMAIN books' = DOMAIN books
            /\ nextId' = nextId
            /\ \A o \in DOMAIN books \ {b} : books'[o] = books[o]
            /\ books'[b].title = rec.title
            /\ books'[b].author = (IF rec.authors = <<>> THEN "Unknown Author"
                                   ELSE Join(rec.authors))
            /\ books'[b].description = (IF rec.description \notin {NULL, ""}
                                        THEN rec.description ELSE books[b].description)
            /\ books'[b].publication_date = (IF date # NoDate THEN date
                                             ELSE books[b].publication_date)
            /\ books'[b].isbn = (IF books[b].isbn \in {NULL, ""} /\ isbn # NULL
                                 THEN isbn ELSE books[b].isbn)
            /\ IF \E q \in DOMAIN qrcodes : qrcodes[q].book = b
               THEN qrcodes' = qrcodes /\ files' = files
               ELSE /\ \A q \in DOMAIN qrcodes : q \in DOMAIN qrcodes' /\ qrcodes'[q] = qrcodes[q]
                    /\ \A f \in DOMAIN files : f \in DOMAIN files' /\ files'[f] = files[f]
                    /\ \E q \in DOMAIN qrcodes' \ DOMAIN qrcodes :
                          /\ DOMAIN qrcodes' = DOMAIN qrcodes \cup {q}
                          /\ qrcodes'[q].book = b
                          /\ DOMAIN files' = DOMAIN files \cup {qrcodes'[q].qr_code}
                          /\ qrcodes'[q].qr_code \notin DOMAIN files
                          /\ files'[qrcodes'[q].qr_code].payload =
                                 <<"b", "o", "o", "k", ":">> \o Str(b)]_vars

\* An import of a record with the ISBN I2, an empty description and a date
\* that does not parse has just updated, by title and author, a Book that
\* keeps its isbn I1, its description D1 and its date, the first day of 2020.
C23_Witness ==
    /\ resp.op = "import" /\ resp.status = 200 /\ resp.created = FALSE
    /\ resp.arg.isbn10 = "I2"
    /\ resp.arg.description = ""
    /\ books[resp.book].title = "T1"
    /\ books[resp.book].author = "A, B"
    /\ books[resp.book].isbn = "I1"
    /\ books[resp.book].description = "D1"
    /\ books[resp.book].publication_date = <<2020, 1, 1>>
    /\ Cardinality(DOMAIN books) = 2

\* C23 as stated: on the update path the artifact of the Book, too, is
\* left unchanged, whatever the Book had.
C23_AsStated ==
    [][(resp'.op = "import" /\ resp'.status = 200) =>
        LET rec == resp'.arg
            b == resp'.book
            isbn == IF rec.isbn13 \notin {NULL, ""} THEN rec.isbn13
                    ELSE IF rec.isbn10 \notin {NULL, ""} THEN rec.isbn10 ELSE NULL
            date == ParsePublishedDate(rec.publishedDate)
        IN  /\ b \in DOMAIN books
            /\ DOMAIN books' = DOMAIN books
            /\ \A o \in DOMAIN books \ {b} : books'[o] = books[o]
            /\ books'[b].title = rec.title
            /\ books'[b].author = (IF rec.authors = <<>> THEN "Unknown Author"
                                   ELSE Join(rec.authors))
            /\ books'[b].description = (IF rec.description \notin {NULL, ""}
                                        THEN rec.description ELSE books[b].description)
            /\ books'[b].publication_date = (IF date # NoDate THEN date
                                             ELSE books[b].publication_date)
            /\ books'[b].isbn = (IF books[b].isbn \in {NULL, ""} /\ isbn # NULL
                                 THEN isbn ELSE books[b].isbn)
            /\ qrcodes' = qrcodes
            /\ files' = files]_vars

(***************************************************************************)
(* Two imports of one record, step by step (specification SpecRace).  Each *)
(* request runs in its own worker with its own Book instance; the queries  *)
(* and the writes of the two are statements of their own (no transaction   *)
(* spans them) and interleave freely.                                      *)
(***************************************************************************)
RaceRecords ==
    [title : {"T1"}, authors : {<<"A", "B">>}, isbn13 : {NULL, "I1"},
     isbn10 : {NULL}, description : {"D1"}, publishedDate : {<<>>}]

\* The catalogs the two imports start on: empty, or one Book that does not
\* match the record (created through the API)
RaceCatalogs ==
    {EmptyState,
     BookCreate(EmptyState, [title |-> "T2", author |-> "A, B", isbn |-> "I2",
                             description |-> NULL, publication_date |-> NoDate]).st}

InitRace ==
    /\ \E st \in RaceCatalogs : Commit0(st)
    /\ pyzbar = TRUE
    /\ resp = NoResp
    /\ call = NoCall
    /\ pc = [r \in Reqs |-> "isbn"]
    /\ \E book_data \in RaceRecords :
          req = [r \in Reqs |-> [record |-> book_data, book |-> 0,
                                 row |-> CreatedRow(book_data), created |-> FALSE]]

\* if isbn: book = Book.objects.get(isbn=isbn)
RaceLookupIsbn(r) ==
    /\ pc[r] = "isbn"
    /\ \E book \in {IF RecordIsbn(req[r].record) # NULL
                    THEN GetByIsbn(Cur, RecordIsbn(req[r].record)) ELSE 0} :
          IF book # 0
          THEN /\ req' = [req EXCEPT ![r].book = book,
                                     ![r].row = UpdatedRow(books[book], req[r].record)]
               /\ pc' = [pc EXCEPT ![r] = "write"]
          ELSE /\ pc' = [pc EXCEPT ![r] = "pair"]
               /\ UNCHANGED req
    /\ SameState
    /\ UNCHANGED <<pyzbar, call, resp>>

\* if not book: book = Book.objects.get(title=title, author=author_str)
RaceLookupPair(r) ==
    /\ pc[r] = "pair"
    /\ \E book \in {GetByTitleAuthor(Cur, req[r].record.title,
                                     AuthorStr(req[r].record.authors))} :
          req' = [req EXCEPT ![r].book = book,
                             ![r].row = IF book # 0
                                        THEN UpdatedRow(books[book], req[r].record)
                                        ELSE CreatedRow(req[r].record)]
    /\ pc' = [pc EXCEPT ![r] = "write"]
    /\ SameState
    /\ UNCHANGED <<pyzbar, call, resp>>

\* book.save() of the update path or Book.objects.create(...) of the create
\* path, up to the write of the row: the UPDATE of the instance's fields or
\* the INSERT; the database refuses a second row with the isbn
RaceWrite(r) ==
    /\ pc[r] = "write"
    /\ IF IsbnTaken(Cur, req[r].row.isbn, {req[r].book})
       THEN /\ pc' = [pc EXCEPT ![r] = "error"]
            /\ resp' = [Resp("import", 500, 0) EXCEPT !.arg = req[r].record]
            /\ UNCHANGED req
            /\ SameState
       ELSE \E id \in {IF req[r].book # 0 THEN req[r].book ELSE nextId} :
            /\ books' = Put(books, id, req[r].row)
            /\ nextId' = IF req[r].book # 0 THEN nextId ELSE nextId + 1
            /\ req' = [req EXCEPT ![r].book = id, ![r].created = (req[r].book = 0)]
            /\ pc' = [pc EXCEPT ![r] = "hasattr"]
            /\ UNCHANGED <<qrcodes, qrNext, files, resp>>
    /\ UNCHANGED <<pyzbar, call>>

\* Book.save: if not hasattr(self, 'qrcode') (a query for the row)
RaceHasQRCode(r) ==
    /\ pc[r] = "hasattr"
    /\ IF QrOf(Cur, req[r].book) # {}
       THEN /\ pc' = [pc EXCEPT ![r] = "done"]
            /\ resp' = [Resp("import", IF req[r].created THEN 201 ELSE 200, req[r].book)
                           EXCEPT !.created = req[r].created, !.arg = req[r].record]
       ELSE /\ pc' = [pc EXCEPT ![r] = "qrcode"]
            /\ UNCHANGED resp
    /\ SameState
    /\ UNCHANGED <<pyzbar, call, req>>

\* Book.save: QRCode.objects.create(book=self), then the response
RaceCreateQRCode(r) ==
    /\ pc[r] = "qrcode"
    /\ \E made \in {QRCodeCreate(Cur, req[r].book)} :
          /\ Commit(made.st)
          /\ pc' = [pc EXCEPT ![r] = IF made.err THEN "error" ELSE "done"]
          /\ resp' = IF made.err
                     THEN [Resp("import", 500, 0) EXCEPT !.arg = req[r].record]
                     ELSE [Resp("import", IF req[r].created THEN 201 ELSE 200, req[r].book)
                              EXCEPT !.created = req[r].created, !.arg = req[r].record]
    /\ UNCHANGED <<pyzbar, call, req>>

NextRace ==
    \/ \E r \in Reqs : RaceLookupIsbn(r)
    \/ \E r \in Reqs : RaceLookupPair(r)
    \/ \E r \in Reqs : RaceWrite(r)
    \/ \E r \in Reqs : RaceHasQRCode(r)
    \/ \E r \in Reqs : RaceCreateQRCode(r)

SpecRace == InitRace /\ [][NextRace]_vars

\* The Books that are the record's: its title, its author and its ISBN
BooksOf(book_data) ==
    {b \in DOMAIN books :
        /\ books[b].title = book_data.title
        /\ books[b].author = AuthorStr(book_data.authors)
        /\ books[b].isbn = RecordIsbn(book_data)}

\* C22: with two imports of one record on a catalog without a matching
\* Book, whose queries and writes interleave in any order, no import ends
\* in a persistence error, never more than one Book is the record's, and
\* once both imports have ended exactly one Book is.
C22_OneBookForTwoImports ==
    /\ \A r \in Reqs : pc[r] # "error"
    /\ \A r \in Reqs : Cardinality(BooksOf(req[r].record)) <= 1
    /\ (\A r \in Reqs : pc[r] \in {"done", "error"}) =>
           \A r \in Reqs : Cardinality(BooksOf(req[r].record)) = 1

\* Both imports of a record without ISBN have completed, each answering
\* 201 with a Book of its own: the catalog has two Books for the record.
C22_Witness ==
    /\ \A r \in Reqs : pc[r] = "done" /\ req[r].created
    /\ req[1].book # req[2].book
    /\ resp.status = 201
    /\ Cardinality(BooksOf(req[1].record)) = 2

====
